---- MODULE Spec2Model ----
(***************************************************************************)
(* Content graph and query engine of the artist-node backend:              *)
(*   backend/models/content_graph.py   (ContentGraph)                      *)
(*   backend/models/collection_resolver.py (CollectionResolver)            *)
(*   backend/graph/graph_ops.py        (GraphOps)                          *)
(*                                                                         *)
(* Python strings are modelled as sequences of code points, so that        *)
(* strip / split / join / startswith / lower and string comparison are     *)
(* computed, not assumed.  47 is "/", 65..90 are "A".."Z", 97..122 are     *)
(* "a".."z".  Python's None is the value None below.                       *)
(***************************************************************************)
EXTENDS Integers, Sequences, FiniteSets, TLC

VARIABLES
  phase,               \* "build" while the graph is being constructed, then "serve"
  regs,                \* number of register_node calls made so far
  root_content_path,   \* ContentGraph.root_content_path
  root_theme,          \* ContentGraph.root_theme
  nodes,               \* ContentGraph.nodes : path -> node record
  node_keys,           \* insertion order of the keys of ContentGraph.nodes
  children_by_parent,  \* ContentGraph.children_by_parent : path -> list of paths
  default_layouts,     \* the module global DEFAULT_COLLECTION_LAYOUTS : mode -> dict
  req,                 \* the last query issued (a record with field op)
  resp,                \* the payload returned for req
  pager,               \* a client walking pages 1..total_pages of one collection
  nav,                 \* the get_nav computation (call stack, visited set, output tree)
  theme_call           \* the _resolve_theme computation (current_path of its loop)

vars == <<phase, regs, root_content_path, root_theme, nodes, node_keys,
          children_by_parent, default_layouts, req, resp, pager, nav, theme_call>>

graphVars == <<root_content_path, root_theme, nodes, node_keys, children_by_parent>>

\* what a query reads: the graph and the built-in layout defaults
dataVars == <<graphVars, default_layouts>>

----------------------------------------------------------------------------
(* Bounds of the model *)

MaxRegs == 3

----------------------------------------------------------------------------
(* Python values *)

None == << -1 >>

NoToken == "<None>"

\* truthiness of an Optional[str] / list
Truthy(s) == s # None /\ s # << >>

SLASH == 47

RECURSIVE LStrip(_, _)
LStrip(s, c) == IF s # << >> /\ Head(s) = c THEN LStrip(Tail(s), c) ELSE s

RECURSIVE RStrip(_, _)
RStrip(s, c) ==
  IF s # << >> /\ s[Len(s)] = c THEN RStrip(SubSeq(s, 1, Len(s) - 1), c) ELSE s

\* str.strip(c)
Strip(s, c) == RStrip(LStrip(s, c), c)

\* c in s
Contains(s, c) == \E i \in 1..Len(s) : s[i] = c

\* s.startswith(prefix)
StartsWith(s, prefix) ==
  /\ Len(prefix) <= Len(s)
  /\ SubSeq(s, 1, Len(prefix)) = prefix

\* s.split("/") : the list of segments, possibly empty ones
RECURSIVE Split(_)
Split(s) ==
  IF ~Contains(s, SLASH) THEN << s >>
  ELSE LET i == CHOOSE k \in 1..Len(s) :
                  s[k] = SLASH /\ \A j \in 1..(k - 1) : s[j] # SLASH
       IN << SubSeq(s, 1, i - 1) >> \o Split(SubSeq(s, i + 1, Len(s)))

\* "/".join(segs)
RECURSIVE Join(_)
Join(segs) ==
  IF segs = << >> THEN << >>
  ELSE IF Len(segs) = 1 THEN segs[1]
  ELSE segs[1] \o << SLASH >> \o Join(Tail(segs))

\* path.split('/')[-1]
LastSegment(path) == LET parts == Split(path) IN parts[Len(parts)]

\* "/".join(path.split("/")[:-1])
DropLastSegment(path) ==
  LET parts == Split(path) IN Join(SubSeq(parts, 1, Len(parts) - 1))

\* str.lower() on ASCII
Lower(s) == [i \in 1..Len(s) |-> IF s[i] \in 65..90 THEN s[i] + 32 ELSE s[i]]

\* s < t for Python strings (lexicographic by code point)
RECURSIVE StrLess(_, _)
StrLess(s, t) ==
  IF t = << >> THEN FALSE
  ELSE IF s = << >> THEN TRUE
  ELSE IF Head(s) # Head(t) THEN Head(s) < Head(t)
  ELSE StrLess(Tail(s), Tail(t))

Reverse(s) == [i \in 1..Len(s) |-> s[Len(s) + 1 - i]]

Range(s) == {s[i] : i \in 1..Len(s)}

Min2(a, b) == IF a < b THEN a ELSE b

Max2(a, b) == IF a > b THEN a ELSE b

\* sorted(s, key=...) : Python's sort is stable, so an element goes after every
\* element that is smaller and after every earlier element that compares equal.
StableSort(s, lt) ==
  LET n == Len(s)
      rank(i) ==
        Cardinality({j \in 1..n : lt[s[j], s[i]]})
          + Cardinality({j \in 1..(i - 1) : ~lt[s[i], s[j]] /\ ~lt[s[j], s[i]]})
          + 1
  IN [r \in 1..n |-> s[CHOOSE i \in 1..n : rank(i) = r]]

\* every ordering random.shuffle can leave a list in
Shuffles(s) ==
  LET n == Len(s)
  IN {[i \in 1..n |-> s[f[i]]] :
        f \in {g \in [1..n -> 1..n] : \A a, b \in 1..n : a # b => g[a] # g[b]}}

----------------------------------------------------------------------------
(* Strings used by the catalogue of nodes *)

P_a   == << 97 >>
P_ax  == << 97, 47, 120 >>
P_ay  == << 97, 47, 121 >>
P_az  == << 97, 47, 122 >>
P_aw  == << 97, 47, 119 >>
P_m   == << 109 >>
P_s   == << 115 >>
S_x   == << 120 >>
S_y   == << 121 >>
S_q   == << 113 >>

T_A   == << 65 >>
T_a   == << 97 >>
T_b   == << 98 >>
T_B   == << 66 >>
T_c   == << 99 >>

----------------------------------------------------------------------------
(* Nodes.  A node record carries the fields of NodeMeta / ContentNode that  *)
(* the graph engine reads.                                                  *)

MkNode(path, parent_path, title, preview_title, collection_order) ==
  [ path             |-> path,
    parent_path      |-> parent_path,
    theme            |-> None,
    title            |-> title,
    preview_title    |-> preview_title,
    slug             |-> LastSegment(path),
    display_name     |-> None,
    collection_order |-> collection_order,
    content          |-> << >> ]

\* NodeMeta.collection_order as _apply_sort reads it
collection_order(node) == node.collection_order

\* Nodes the collection queries run over.  parent_path is set as the builder
\* sets it (the path minus its last segment, None at the top level), left
\* unset (ContentNode.from_dict), or set by hand to an owner that is not a
\* prefix of the path (as the hand-built graphs of the tests do).
CollNodes ==
  { MkNode(P_a,  None, T_A,  None, << S_y, S_x >>),
    MkNode(P_a,  None, T_A,  None, << S_x, S_q, S_y, S_x >>),
    MkNode(P_a,  None, T_A,  None, << >>),
    MkNode(P_ax, P_a,  T_b,  None, << >>),
    MkNode(P_ay, P_a,  T_B,  None, << >>),
    MkNode(P_az, P_a,  T_c,  T_a,  << >>),
    MkNode(P_aw, None, None, None, << >>),
    MkNode(P_m,  P_a,  T_c,  None, << >>) }

----------------------------------------------------------------------------
(* ContentGraph *)

HasNode(path) == path \in DOMAIN nodes

\* ContentGraph.get_node, for a path that is registered
GetNode(path) == nodes[path]

\* self.nodes[path] = node
NodesAfterRegister(ns, node) ==
  [p \in (DOMAIN ns) \cup {node.path} |-> IF p = node.path THEN node ELSE ns[p]]

\* a dict keeps the position of a key that is assigned again
KeysAfterRegister(keys, ns, node) ==
  IF node.path \in DOMAIN ns THEN keys ELSE Append(keys, node.path)

\* if parent: self.children_by_parent.setdefault(parent, []).append(path)
ChildrenAfterRegister(cbp, node) ==
  IF Truthy(node.parent_path)
  THEN [p \in (DOMAIN cbp) \cup {node.parent_path} |->
          IF p = node.parent_path
          THEN (IF p \in DOMAIN cbp THEN Append(cbp[p], node.path) ELSE << node.path >>)
          ELSE cbp[p]]
  ELSE cbp

----------------------------------------------------------------------------
(* backend/models/defaults.py *)

\* the values of a layout dict: a value that is not a dict carries its type,
\* a dict is a function from its keys to values
IntV(n) == [int |-> n]

StrV(s) == [str |-> s]

BoolV(b) == [bool |-> b]

NoneV == [none |-> TRUE]

\* isinstance(v, dict)
IsDict(v) == DOMAIN v \cap {"int", "str", "bool", "none"} = {}

\* the dict the module is loaded with
DEFAULT_COLLECTION_LAYOUTS ==
  [ grid |->
      [ mode    |-> StrV("grid"),
        columns |-> [xl |-> IntV(5), lg |-> IntV(4), md |-> IntV(3), sm |-> IntV(2),
                     xs |-> IntV(1)],
        gap     |-> [row |-> StrV("1.5rem"), column |-> StrV("1.5rem")],
        align   |-> [horizontal |-> StrV("stretch"), vertical |-> StrV("start")] ],
    list |->
      [ mode          |-> StrV("list"),
        dense         |-> BoolV(FALSE),
        show_dividers |-> BoolV(TRUE),
        show_avatar   |-> BoolV(TRUE),
        show_meta     |-> BoolV(TRUE),
        align         |-> [vertical |-> StrV("center")] ],
    carousel |->
      [ mode            |-> StrV("carousel"),
        slides_per_view |-> [xl |-> IntV(5), lg |-> IntV(4), md |-> IntV(3),
                             sm |-> IntV(2), xs |-> IntV(1)],
        spacing         |-> StrV("1rem"),
        loop            |-> BoolV(TRUE),
        autoplay        |-> [enabled |-> BoolV(TRUE), interval_ms |-> IntV(8000),
                             pause_on_hover |-> BoolV(TRUE)],
        controls        |-> [arrows |-> BoolV(TRUE), dots |-> BoolV(TRUE)],
        snap_align      |-> StrV("center"),
        max_width       |-> StrV("100%") ] ]

\* a layout without a mode
NoMode == "<None>"

\* mode = layout_dict.get("mode") or "grid"
LayoutMode(mode) == IF mode \in {NoMode, ""} THEN "grid" ELSE mode

\* DEFAULT_COLLECTION_LAYOUTS.get(mode, DEFAULT_COLLECTION_LAYOUTS["grid"])
LayoutDefaults(mode) ==
  IF LayoutMode(mode) \in DOMAIN default_layouts
  THEN default_layouts[LayoutMode(mode)]
  ELSE default_layouts["grid"]

\* DEFAULT_COLLECTION_LAYOUTS after _deep_merge(defaults, layout_dict):
\* out = dict(a or {}) is a new dict, every assignment is to out, and the
\* nested call gets out[k] as its a and copies it in turn
DefaultsAfterMerge(mode) == default_layouts

\* (mutant) the caller's dict laid over the top level only
DeepMergeShallow(a, b) ==
  [k \in DOMAIN a \cup DOMAIN b |-> IF k \in DOMAIN b THEN b[k] ELSE a[k]]

\* _deep_merge(a, b): a new dict with the keys of both; a key of b whose
\* value is a dict over a dict of a is merged in turn, any other key of b
\* takes the value of b
RECURSIVE DeepMerge(_, _)
DeepMerge(a, b) ==
  [k \in DOMAIN a \cup DOMAIN b |->
     IF k \notin DOMAIN b THEN a[k]
     ELSE IF IsDict(b[k]) /\ k \in DOMAIN a /\ IsDict(a[k])
     THEN DeepMerge(a[k], b[k])
     ELSE b[k]]

\* layout is None
NoLayout == NoneV

\* layout or {}
LayoutDict(layout) == IF layout = NoLayout THEN << >> ELSE layout

\* layout_dict.get("mode") or "grid"
ModeOf(layout_dict) ==
  IF "mode" \in DOMAIN layout_dict /\ "str" \in DOMAIN layout_dict.mode
  THEN LayoutMode(layout_dict.mode.str)
  ELSE "grid"

\* merged_layout of resolve_collection
MergedLayout(layout) ==
  DeepMerge(LayoutDefaults(ModeOf(LayoutDict(layout))), LayoutDict(layout))

\* the fields of CollectionLayout
LayoutFields ==
  { "mode", "columns", "gap", "align", "max_rows", "pagination", "dense",
    "show_dividers", "show_avatar", "show_meta", "max_items", "slides_per_view",
    "spacing", "loop", "autoplay", "controls", "snap_align", "max_width" }

\* asdict(block.layout) for a CollectionLayout built from the authored
\* fields: mode defaults to "grid", every other field to None
LayoutAsDict(authored) ==
  [f \in LayoutFields |->
     IF f \in DOMAIN authored THEN authored[f]
     ELSE IF f = "mode" THEN StrV("grid")
     ELSE NoneV]

\* layout_dict of hydrate_collection_block
HydrateLayoutDict(layout) ==
  IF layout = NoLayout THEN << >> ELSE LayoutAsDict(layout)

\* data["layout"] of hydrate_collection_block
HydratedLayout(layout) ==
  DeepMerge(LayoutDefaults(ModeOf(HydrateLayoutDict(layout))), HydrateLayoutDict(layout))

----------------------------------------------------------------------------
(* CollectionResolver *)

DefaultPageSize == 24

\* Fast path of _resolve_folder_source: the children index
FastLookup(base) == children_by_parent[base]

\* Fallback of _resolve_folder_source: prefix scan, direct children only
PrefixScan(base) ==
  LET prefix == base \o << SLASH >>
      direct(p) == /\ StartsWith(p, prefix)
                   /\ ~Contains(SubSeq(p, Len(prefix) + 1, Len(p)), SLASH)
  IN SelectSeq(node_keys, direct)

\* (mutant) the path looked up as given, slashes and all
ResolveFolderSourceUnstripped(path) ==
  IF ~Truthy(path) THEN << >>
  ELSE IF path \in DOMAIN children_by_parent
       THEN FastLookup(path)
       ELSE PrefixScan(path)

\* _resolve_folder_source
ResolveFolderSource(path) ==
  IF ~Truthy(path) THEN << >>
  ELSE LET base == Strip(path, SLASH)
       IN IF base \in DOMAIN children_by_parent
          THEN FastLookup(base)
          ELSE PrefixScan(base)

\* (mutant) every source but media_folder resolved as a folder
ResolveCandidatesAsFolder(source, path) ==
  IF source # "media_folder" THEN ResolveFolderSource(path) ELSE << >>

\* _resolve_candidates: only "folder" resolves graph children here; the
\* reserved sources fall through to the empty list
ResolveCandidates(source, path) ==
  IF source = "folder" THEN ResolveFolderSource(path) ELSE << >>

SortTitle(node_path) ==
  IF HasNode(node_path) /\ Truthy(GetNode(node_path).preview_title)
  THEN GetNode(node_path).preview_title
  ELSE IF HasNode(node_path) /\ Truthy(GetNode(node_path).title)
  THEN GetNode(node_path).title
  ELSE node_path

TitleKey(p) == Lower(SortTitle(p))

TitleLt(p, q) == StrLess(TitleKey(p), TitleKey(q))

TitleGt(p, q) == StrLess(TitleKey(q), TitleKey(p))

\* order_map = {slug: idx for idx, slug in enumerate(collection_order)}:
\* a slug listed twice keeps its last index
OrderMapIndex(order, slug) ==
  (CHOOSE i \in 1..Len(order) :
      order[i] = slug /\ \A j \in (i + 1)..Len(order) : order[j] # slug) - 1

\* (mutant) unlisted candidates without their title in the key
SortKeyUntitled(order, path) ==
  LET slug == LastSegment(path)
  IN IF slug \in Range(order)
     THEN << 0, OrderMapIndex(order, slug), << >> >>
     ELSE << 1, 999999, << >> >>

\* sort_key of _apply_sort
SortKey(order, path) ==
  LET slug == LastSegment(path)
  IN IF slug \in Range(order)
     THEN << 0, OrderMapIndex(order, slug), << >> >>
     ELSE << 1, 999999, TitleKey(path) >>

\* tuple comparison of two sort keys
KeyLt(k1, k2) ==
  \/ k1[1] < k2[1]
  \/ k1[1] = k2[1] /\ k1[2] < k2[2]
  \/ k1[1] = k2[1] /\ k1[2] = k2[2] /\ StrLess(k1[3], k2[3])

\* the parent node's collection_order is consulted
UsesCollectionOrder(parent_path) ==
  /\ Truthy(parent_path)
  /\ HasNode(parent_path)
  /\ Truthy(collection_order(GetNode(parent_path)))

\* sorted(paths, key=lambda p: self._sort_title(p).lower())
NameAsc(paths) ==
  [p \in Range(paths), q \in Range(paths) |-> TitleLt(p, q)]

\* (mutant) name_desc sorting upward
NameDescUpward(paths) ==
  [p \in Range(paths), q \in Range(paths) |-> TitleLt(p, q)]

\* sorted(paths, key=lambda p: self._sort_title(p).lower(), reverse=True):
\* descending by key, items with equal keys keep their order
NameDesc(paths) ==
  [p \in Range(paths), q \in Range(paths) |-> TitleGt(p, q)]

\* sorted(paths, key=sort_key)
ByCollectionOrder(paths, order) ==
  [p \in Range(paths), q \in Range(paths) |->
     KeyLt(SortKey(order, p), SortKey(order, q))]

\* (mutant) collection_order consulted before the name tokens
ApplySortOrderFirst(paths, sort, parent_path, shuffled) ==
  IF sort = "random" THEN shuffled
  ELSE IF UsesCollectionOrder(parent_path)
  THEN StableSort(paths, ByCollectionOrder(paths, collection_order(GetNode(parent_path))))
  ELSE IF sort = "name_desc" THEN StableSort(paths, NameDesc(paths))
  ELSE StableSort(paths, NameAsc(paths))

\* _apply_sort; shuffled is what random.shuffle left the list as
ApplySort(paths, sort, parent_path, shuffled) ==
  IF sort = "random" THEN shuffled
  ELSE IF sort = "name_asc" THEN StableSort(paths, NameAsc(paths))
  ELSE IF sort = "name_desc" THEN StableSort(paths, NameDesc(paths))
  ELSE IF UsesCollectionOrder(parent_path)
  THEN StableSort(paths, ByCollectionOrder(paths, collection_order(GetNode(parent_path))))
  ELSE StableSort(paths, NameAsc(paths))

\* (mutant) limit >= 0 instead of limit > 0
ApplyLimitFromZero(cands, limit) ==
  IF limit # << >> /\ limit[1] >= 0
  THEN SubSeq(cands, 1, Min2(limit[1], Len(cands)))
  ELSE cands

\* candidates[:limit] when limit is a positive int; limit is << >> for None
ApplyLimit(cands, limit) ==
  IF limit # << >> /\ limit[1] > 0
  THEN SubSeq(cands, 1, Min2(limit[1], Len(cands)))
  ELSE cands

\* (mutant) a slice that starts past the end gives the tail of the list
PySliceLastPage(s, start, end) ==
  IF start >= Len(s) /\ s # << >> THEN SubSeq(s, Len(s), Len(s))
  ELSE IF start >= Len(s) THEN << >>
  ELSE SubSeq(s, start + 1, IF end < Len(s) THEN end ELSE Len(s))

\* s[start:end]: a negative index counts from the end, both are clamped to
\* the list
PySlice(s, start, end) ==
  LET norm(i) == IF i < 0 THEN Max2(0, i + Len(s)) ELSE Min2(i, Len(s))
  IN IF norm(start) >= norm(end) THEN << >>
     ELSE SubSeq(s, norm(start) + 1, norm(end))

\* _item_payload for a graph node
ItemPayload(item_id) ==
  IF ~HasNode(item_id) THEN [path |-> item_id]
  ELSE [ path         |-> GetNode(item_id).path,
         slug         |-> GetNode(item_id).slug,
         display_name |-> GetNode(item_id).display_name,
         preview      |-> GetNode(item_id).preview_title ]

\* (mutant) page or 1, without the max
CoercePageUnclamped(page) == IF page = 0 THEN 1 ELSE page

\* page = max(1, int(page or 1))
CoercePage(page) == Max2(1, IF page = 0 THEN 1 ELSE page)

\* page_size = max(1, int(page_size or 24))
CoercePageSize(page_size) ==
  Max2(1, IF page_size = 0 THEN DefaultPageSize ELSE page_size)

\* (mutant) floor instead of ceiling
TotalPagesFloor(total_items, page_size) == total_items \div page_size

\* total_pages = (total_items + page_size - 1) // page_size
TotalPages(total_items, page_size) == (total_items + page_size - 1) \div page_size

\* (mutant) the slice starts one page late
SliceStartLate(page, page_size) == page * page_size

\* start, end of the slice for the current page
SliceStart(page, page_size) == (page - 1) * page_size

SliceEnd(page, page_size) == SliceStart(page, page_size) + page_size

\* (mutant) end <= total_items
HasMoreInclusive(page, page_size, total_items) ==
  (page - 1) * page_size + page_size <= total_items

\* "has_more": end < total_items
HasMore(page, page_size, total_items) == SliceEnd(page, page_size) < total_items

\* (mutant) the fast path hands out the index's own list and the sort
\* rearranges it in place
IndexAfterResolveInPlace(source, path, sort, shuffled) ==
  LET base == Strip(path, SLASH)
  IN IF source = "folder" /\ Truthy(path) /\ base \in DOMAIN children_by_parent
     THEN [children_by_parent EXCEPT
             ![base] = ApplySort(children_by_parent[base], sort, path, shuffled)]
     ELSE children_by_parent

\* children_by_parent after _resolve_candidates and _apply_sort: the fast
\* path returns list(children_by_parent[base]), a new list; random.shuffle
\* works on out = paths[:], the other sorts call sorted(); the limit and the
\* page are slices.  No statement writes to a list of the index.
IndexAfterResolve(source, path, sort, shuffled) == children_by_parent

\* what a call of resolve_collection or hydrate_collection_block leaves of
\* the data it reads
ReadsOnly(source, path, sort, shuffled, mode) ==
  /\ children_by_parent' = IndexAfterResolve(source, path, sort, shuffled)
  /\ default_layouts' = DefaultsAfterMerge(mode)
  /\ UNCHANGED <<root_content_path, root_theme, nodes, node_keys>>

\* source or "folder"
SourceOrFolder(source) == IF source = "" THEN "folder" ELSE source

\* the candidates of a request after resolution, before sorting
Candidates(r) == ResolveCandidates(SourceOrFolder(r.source), r.path)

\* the candidates after sort (+ limit)
SortedLimited(r, shuffled) ==
  ApplyLimit(ApplySort(Candidates(r), r.sort, r.path, shuffled), r.limit)

\* resolve_collection
ResolveCollection(r, shuffled) ==
  LET page       == CoercePage(r.page)
      page_size  == CoercePageSize(r.page_size)
      candidates == SortedLimited(r, shuffled)
      total      == Len(candidates)
      page_paths == PySlice(candidates, SliceStart(page, page_size),
                            SliceEnd(page, page_size))
  IN [ type        |-> "collection",
       source      |-> IF r.source = "" THEN "folder" ELSE r.source,
       path        |-> r.path,
       sort        |-> r.sort,
       layout      |-> MergedLayout(r.layout),
       items       |-> [i \in 1..Len(page_paths) |-> ItemPayload(page_paths[i])],
       page        |-> page,
       page_size   |-> page_size,
       total_items |-> total,
       total_pages |-> TotalPages(total, page_size),
       has_more    |-> HasMore(page, page_size, total) ]

\* what random.shuffle may produce for this request (the list itself when the
\* request does not shuffle)
ShuffleChoices(r) ==
  IF r.sort = "random" THEN Shuffles(Candidates(r)) ELSE {Candidates(r)}

\* CollectionBlock.paging is None
NoPaging == [enabled |-> FALSE, page_size |-> << >>, given |-> FALSE]

\* CollectionPaging(enabled, page_size); page_size is << >> for None
Paging(enabled, page_size) ==
  [enabled |-> enabled, page_size |-> page_size, given |-> TRUE]

\* a CollectionBlock of a page, with the path of the node that holds it;
\* layout holds the fields of the authored CollectionLayout
Block(source, path, sort, limit, paging, mode) ==
  [ op |-> "hydrate", source |-> source, path |-> path, sort |-> sort,
    limit |-> limit, paging |-> paging, mode |-> mode,
    layout |-> IF mode = NoMode THEN NoLayout ELSE [mode |-> StrV(mode)] ]

\* the candidates of a block: block.source is used as it is
BlockCandidates(b) == ResolveCandidates(b.source, b.path)

\* bool(paging_cfg.get("enabled", False))
PagingEnabled(b) == b.paging.given /\ b.paging.enabled

\* (mutant) the default page size also when paging is off
HydratePageSizeAlwaysPaged(b, total_items) ==
  IF b.paging.page_size = << >> \/ b.paging.page_size[1] <= 0
  THEN DefaultPageSize ELSE b.paging.page_size[1]

\* page_size of hydrate_collection_block: 24 when paging is enabled without
\* a positive page_size, everything when paging is off
HydratePageSize(b, total_items) ==
  IF PagingEnabled(b)
  THEN (IF b.paging.page_size = << >> \/ b.paging.page_size[1] <= 0
        THEN DefaultPageSize ELSE b.paging.page_size[1])
  ELSE total_items

\* hydrate_collection_block
HydrateCollection(b, shuffled) ==
  LET candidates == ApplyLimit(ApplySort(BlockCandidates(b), b.sort, b.path, shuffled),
                               b.limit)
      total      == Len(candidates)
      page_size  == HydratePageSize(b, total)
      end        == page_size
      page_paths == IF page_size # 0 THEN PySlice(candidates, 0, end) ELSE << >>
  IN [ type        |-> "collection",
       source      |-> b.source,
       path        |-> b.path,
       sort        |-> b.sort,
       layout      |-> HydratedLayout(b.layout),
       items       |-> [i \in 1..Len(page_paths) |-> ItemPayload(page_paths[i])],
       enabled     |-> PagingEnabled(b),
       page        |-> 1,
       page_size   |-> page_size,
       total_items |-> total,
       total_pages |-> IF page_size > 0 THEN TotalPages(total, page_size) ELSE 1,
       has_more    |-> IF page_size # 0 THEN end < total ELSE FALSE ]

BlockShuffleChoices(b) ==
  IF b.sort = "random" THEN Shuffles(BlockCandidates(b)) ELSE {BlockCandidates(b)}

----------------------------------------------------------------------------
(* The queries a client issues *)

Req(source, path, page, page_size, sort, limit) ==
  [ op |-> "collection", source |-> source, path |-> path, page |-> page,
    page_size |-> page_size, sort |-> sort, limit |-> limit, layout |-> NoLayout ]

P_a_slashed == << 47, 97, 47 >>

SortTokens == {NoToken, "name_asc", "name_desc", "random", "created_at_desc"}

Limits == {<< >>, << -1 >>, << 0 >>, << 2 >>}

\* GET /api/collection: every combination of page and page_size with and
\* without a limit, every sort token with every limit on page 1, and the
\* other sources and paths with default paging
Requests ==
  {Req("folder", P_a, pg, ps, NoToken, lm) :
      pg \in 0..3, ps \in 0..2, lm \in {<< >>, << 2 >>}}
  \cup {Req("folder", P_a, 1, ps, st, lm) :
      ps \in {0, 2}, st \in SortTokens, lm \in Limits}
  \cup {Req(src, pt, 1, 0, st, << >>) :
      src \in {"folder", "", "roster"}, pt \in {P_a, P_a_slashed, << >>, None, P_m},
      st \in {NoToken, "name_desc"}}

Pagings ==
  {NoPaging, Paging(FALSE, << >>), Paging(FALSE, << 1 >>)}
  \cup {Paging(TRUE, ps) : ps \in {<< >>, << 0 >>, << 1 >>, << 2 >>}}

\* collection blocks of pages: a folder with every paging config, sort and
\* limit, and the other sources with and without paging
Blocks ==
  {Block("folder", P_a, st, lm, pg, NoMode) :
      st \in {NoToken, "name_desc", "random"}, lm \in {<< >>, << 2 >>}, pg \in Pagings}
  \cup {Block(src, P_a, NoToken, << >>, pg, md) :
      src \in {"", "roster"}, pg \in {NoPaging, Paging(TRUE, << 2 >>)},
      md \in {NoMode, "list"}}

NoReq == [op |-> "none"]

NoResp == [type |-> "none"]

IdlePager == [state |-> "idle"]

IdleNav == [state |-> "idle"]

IdleTheme == [state |-> "idle"]

----------------------------------------------------------------------------
(* Construction of the graph: the builder (or a test) registers nodes one   *)
(* by one, then the graph is served read-only.                              *)

RegisterNode(node) ==
  /\ phase = "build"
  /\ regs < MaxRegs
  /\ regs' = regs + 1
  /\ nodes' = NodesAfterRegister(nodes, node)
  /\ node_keys' = KeysAfterRegister(node_keys, nodes, node)
  /\ children_by_parent' = ChildrenAfterRegister(children_by_parent, node)
  /\ UNCHANGED <<phase, root_content_path, root_theme, default_layouts,
                 req, resp, pager, nav, theme_call>>

FinishBuild ==
  /\ phase = "build"
  /\ phase' = "serve"
  /\ UNCHANGED <<regs, dataVars, req, resp, pager, nav, theme_call>>

\* CollectionResolver.resolve_collection
GetCollection(r, shuffled) ==
  /\ phase = "serve"
  /\ req = NoReq
  /\ pager.state = "idle"
  /\ req' = r
  /\ resp' = ResolveCollection(r, shuffled)
  /\ ReadsOnly(SourceOrFolder(r.source), r.path, r.sort, shuffled, NoMode)
  /\ UNCHANGED <<phase, regs, pager, nav, theme_call>>

\* hydrate_collection_block is called for a collection block of a page
HydrateCollectionBlock(b, shuffled) ==
  /\ phase = "serve"
  /\ req = NoReq
  /\ pager.state = "idle"
  /\ req' = b
  /\ resp' = HydrateCollection(b, shuffled)
  /\ ReadsOnly(b.source, b.path, b.sort, shuffled, b.mode)
  /\ UNCHANGED <<phase, regs, pager, nav, theme_call>>

\* the response is delivered and the handler is ready for the next request
Deliver ==
  /\ phase = "serve"
  /\ req # NoReq
  /\ req' = NoReq
  /\ resp' = NoResp
  /\ UNCHANGED <<phase, regs, dataVars, pager, nav, theme_call>>

\* item["path"] of every item of a payload
ItemPaths(items) == [i \in 1..Len(items) |-> items[i].path]

\* A client that loads a collection page by page ("load_more"): it asks for
\* page 1, reads total_pages from the answer, and keeps asking for the next
\* page with the same parameters until it has asked for page total_pages.
PagerRequests ==
  {Req("folder", P_a, 1, ps, st, lm) :
      ps \in {1, 2}, st \in {NoToken, "name_desc"}, lm \in {<< >>, << 2 >>}}
  \cup {Req("folder", P_a, 1, 2, "random", lm) : lm \in {<< >>, << 2 >>}}

PagerAfterFetch(r, page, acc, payload) ==
  [ state       |-> IF page >= payload.total_pages THEN "done" ELSE "paging",
    r           |-> r,
    next        |-> page + 1,
    acc         |-> acc \o ItemPaths(payload.items),
    total_pages |-> payload.total_pages ]

PagerStart(r, shuffled) ==
  /\ phase = "serve"
  /\ req = NoReq
  /\ pager.state = "idle"
  /\ pager' = PagerAfterFetch(r, 1, << >>, ResolveCollection(r, shuffled))
  /\ ReadsOnly(SourceOrFolder(r.source), r.path, r.sort, shuffled, NoMode)
  /\ UNCHANGED <<phase, regs, req, resp, nav, theme_call>>

PagerFetchNext(shuffled) ==
  /\ phase = "serve"
  /\ pager.state = "paging"
  /\ pager' = PagerAfterFetch(pager.r, pager.next, pager.acc,
                 ResolveCollection([pager.r EXCEPT !.page = pager.next], shuffled))
  /\ ReadsOnly(SourceOrFolder(pager.r.source), pager.r.path, pager.r.sort, shuffled,
               NoMode)
  /\ UNCHANGED <<phase, regs, req, resp, nav, theme_call>>

PagerReset ==
  /\ pager.state = "done"
  /\ pager' = IdlePager
  /\ UNCHANGED <<phase, regs, dataVars, req, resp, nav, theme_call>>

----------------------------------------------------------------------------
(* GET /api/collection: CollectionsController.get parses the query string   *)
(* and hands the numbers to GraphOps.get_collection.                        *)

Digits == 48..57

\* the value of a string of decimal digits
RECURSIVE DigitsValue(_)
DigitsValue(s) ==
  IF s = << >> THEN 0
  ELSE 10 * DigitsValue(SubSeq(s, 1, Len(s) - 1)) + (s[Len(s)] - 48)

\* int(s) for a str: surrounding blanks are dropped, one sign is allowed, the
\* rest must be decimal digits; << n >> is the number, << >> a ValueError
ParseInt(s) ==
  LET t    == Strip(s, 32)
      body == IF t # << >> /\ Head(t) \in {43, 45} THEN Tail(t) ELSE t
  IN IF body = << >> \/ \E i \in 1..Len(body) : body[i] \notin Digits
     THEN << >>
     ELSE IF t # << >> /\ Head(t) = 45
          THEN << 0 - DigitsValue(body) >>
          ELSE << DigitsValue(body) >>

\* try: int(request.args.get(name, default)) except ValueError: default
IntArg(raw, default) ==
  IF raw = None THEN default
  ELSE IF ParseInt(raw) = << >> THEN default
  ELSE ParseInt(raw)[1]

\* limit: None unless the parameter is given and parses
LimitArg(raw) == IF raw = None THEN << >> ELSE ParseInt(raw)

\* GraphOps.get_collection hands its arguments to resolve_collection
get_collection(r, shuffled) == ResolveCollection(r, shuffled)

\* request.args without a source parameter
NoSource == "<None>"

Query(source, path, page, page_size, sort, limit) ==
  [ op |-> "http_collection", source |-> source, path |-> path, page |-> page,
    page_size |-> page_size, sort |-> sort, limit |-> limit, mode |-> NoMode ]

\* the mode parameter of the query string
Modes == {NoMode, "", "list", "rows"}

R_empty == << >>                 \* ""
R_x     == << 120 >>             \* "x"
R_frac  == << 49, 46, 53 >>      \* "1.5"
R_zero  == << 48 >>              \* "0"
R_two   == << 50 >>              \* "2"
R_neg   == << 45, 49 >>          \* "-1"
R_pad   == << 32, 51 >>          \* " 3"

RawInts == {None, R_empty, R_x, R_frac, R_zero, R_two, R_neg, R_pad}

\* query strings: each page with page_size missing, each page_size with page
\* missing, both given, a limit given, and the path missing or empty
Queries ==
  {Query(NoSource, P_a, pg, None, NoToken, None) : pg \in RawInts}
  \cup {Query(NoSource, P_a, None, ps, NoToken, None) : ps \in RawInts}
  \cup {Query("folder", P_a, pg, ps, NoToken, lm) :
          pg \in {R_two, R_neg}, ps \in {R_two, R_zero}, lm \in {None, R_two, R_x}}
  \cup {Query(NoSource, pt, None, None, NoToken, None) : pt \in {None, << >>}}
  \cup {[Query(NoSource, P_a, None, None, st, None) EXCEPT !.mode = md] :
          st \in {NoToken, "random"}, md \in Modes}

\* layout = {"mode": mode} if mode else None
LayoutOfMode(mode) ==
  IF mode \in {NoMode, ""} THEN NoLayout ELSE [mode |-> StrV(mode)]

\* the request the controller passes on
RequestOf(q) ==
  [Req(IF q.source = NoSource THEN "folder" ELSE q.source, q.path,
       IntArg(q.page, 1), IntArg(q.page_size, DefaultPageSize),
       q.sort, LimitArg(q.limit))
     EXCEPT !.layout = LayoutOfMode(q.mode)]

HttpError(status) == [type |-> "http", status |-> status, body |-> NoResp]

HttpOk(payload) == [type |-> "http", status |-> 200, body |-> payload]

\* CollectionsController.get
HttpGetCollection(q, shuffled) ==
  /\ phase = "serve"
  /\ req = NoReq
  /\ pager.state = "idle"
  /\ req' = q
  /\ IF ~Truthy(q.path)
     THEN /\ resp' = HttpError(400)
          /\ UNCHANGED dataVars
     ELSE /\ resp' = HttpOk(get_collection(RequestOf(q), shuffled))
          /\ ReadsOnly(RequestOf(q).source, q.path, q.sort, shuffled, q.mode)
  /\ UNCHANGED <<phase, regs, pager, nav, theme_call>>

InitGraph ==
  /\ phase = "build"
  /\ regs = 0
  /\ root_content_path = P_s
  /\ root_theme = None
  /\ nodes = << >>
  /\ node_keys = << >>
  /\ children_by_parent = << >>
  /\ default_layouts = DEFAULT_COLLECTION_LAYOUTS

Init ==
  /\ InitGraph
  /\ req = NoReq
  /\ resp = NoResp
  /\ pager = IdlePager
  /\ nav = IdleNav
  /\ theme_call = IdleTheme

\* the graph is served and no query is under way
Idle == phase = "serve" /\ req = NoReq /\ pager.state = "idle"

Next ==
  \/ \E node \in CollNodes : RegisterNode(node)
  \/ FinishBuild
  \/ Idle /\ \E r \in Requests : \E sh \in ShuffleChoices(r) : GetCollection(r, sh)
  \/ Idle /\ \E q \in Queries :
               \E sh \in ShuffleChoices(RequestOf(q)) : HttpGetCollection(q, sh)
  \/ Idle /\ \E b \in Blocks :
               \E sh \in BlockShuffleChoices(b) : HydrateCollectionBlock(b, sh)
  \/ Deliver
  \/ Idle /\ \E r \in PagerRequests : \E sh \in ShuffleChoices(r) : PagerStart(r, sh)
  \/ pager.state = "paging" /\ \E sh \in ShuffleChoices(pager.r) : PagerFetchNext(sh)
  \/ PagerReset

Spec == Init /\ [][Next]_vars

----------------------------------------------------------------------------
(* Effective theme: ContentGraph.to_page_payload and _resolve_theme, one    *)
(* iteration of the while loop per step.                                    *)

P_g   == << 103 >>                      \* "g"
P_gp  == << 103, 47, 112 >>             \* "g/p"
P_gpn == << 103, 47, 112, 47, 110 >>    \* "g/p/n"

TH_d == << 100 >>                       \* theme "d"
TH_l == << 108 >>                       \* theme "l"
TH_m == << 109 >>                       \* theme "m"

MkThemeNode(path, parent_path, theme) ==
  [MkNode(path, parent_path, None, None, << >>) EXCEPT !.theme = theme]

\* nodes as the builder makes them (parent_path the directory above), as
\* from_dict makes them (parent_path None) and as tests register them
\* (parent_path chosen by hand)
ThemeNodes ==
  { MkThemeNode(P_g,   None, TH_d),
    MkThemeNode(P_g,   None, None),
    MkThemeNode(P_gp,  P_g,  TH_l),
    MkThemeNode(P_gpn, P_gp, None),
    MkThemeNode(P_gpn, None, None),
    MkThemeNode(P_gpn, P_g,  None),
    MkThemeNode(P_gpn, P_s,  None),
    MkThemeNode(P_gpn, P_gp, TH_m),
    MkThemeNode(P_s,   None, TH_l) }

ThemePaths == {P_g, P_gp, P_gpn, P_s}

\* if node and node.meta.theme
ThemeFound(current_path) ==
  HasNode(current_path) /\ Truthy(GetNode(current_path).theme)

\* (mutant) no fallback to the path string when the node is missing
ThemeAdvanceByParentOnly(current_path) ==
  IF HasNode(current_path) /\ Truthy(GetNode(current_path).parent_path)
  THEN GetNode(current_path).parent_path
  ELSE None

\* the move to the parent; None stands for the break out of the loop
ThemeAdvance(current_path) ==
  IF HasNode(current_path) /\ Truthy(GetNode(current_path).parent_path)
  THEN GetNode(current_path).parent_path
  ELSE IF Contains(current_path, SLASH)
  THEN DropLastSegment(current_path)
  ELSE None

\* a CollectionBlock in the content of a node
ContentCollection(source, path, sort, limit, paging) ==
  [ type |-> "collection", source |-> source, path |-> path, sort |-> sort,
    limit |-> limit, paging |-> paging ]

\* dataclasses.asdict(block): the fields of the block, nested blocks of a
\* section converted in turn; nothing is added to a collection block
RECURSIVE AsDict(_)
AsDict(block) ==
  IF block.type = "section"
  THEN [block EXCEPT !.blocks = [i \in 1..Len(block.blocks) |-> AsDict(block.blocks[i])]]
  ELSE block

\* "content" of ContentNode.to_dict
PayloadContent(node) == [i \in 1..Len(node.content) |-> AsDict(node.content[i])]

\* the payload: node.to_dict() with meta.effective_theme set
ThemeDone(path, theme) ==
  [ state |-> "done", path |-> path, found |-> TRUE, effective_theme |-> theme,
    content |-> PayloadContent(GetNode(path)) ]

\* to_page_payload(path): an unregistered path gives None; otherwise
\* _resolve_theme(path) starts with current_path = path
PagePayloadCall(path) ==
  IF ~HasNode(path)
  THEN [state |-> "done", path |-> path, found |-> FALSE,
        effective_theme |-> None]
  ELSE [state |-> "walking", path |-> path, current_path |-> path, odd |-> FALSE]

\* to_page_payload called on the graph directly
ToPagePayload(path) ==
  /\ phase = "serve"
  /\ theme_call.state = "idle"
  /\ theme_call' = PagePayloadCall(path)
  /\ req' = NoReq
  /\ UNCHANGED <<phase, regs, dataVars, resp, pager, nav>>

PageReq(path) == [op |-> "get_page", path |-> path]

\* the path query parameter: absent, empty, or a path
PagePaths == ThemePaths \cup {None, << >>}

\* (mutant) get_page hands the path on as it came
PagePathAsGiven(path) == path

\* if not path: path = self.graph.root_content_path
PagePath(path) == IF ~Truthy(path) THEN root_content_path ELSE path

\* GraphOps.get_page(path)
GetPage(path) ==
  /\ phase = "serve"
  /\ theme_call.state = "idle"
  /\ theme_call' = PagePayloadCall(PagePath(path))
  /\ req' = PageReq(path)
  /\ UNCHANGED <<phase, regs, dataVars, resp, pager, nav>>

\* one iteration of "while current_path", or the return after the loop; odd
\* tells an iteration from the one before it
ThemeStep ==
  /\ theme_call.state = "walking"
  /\ LET cp == theme_call.current_path
     IN theme_call' =
          IF ~Truthy(cp) THEN ThemeDone(theme_call.path, root_theme)
          ELSE IF ThemeFound(cp) THEN ThemeDone(theme_call.path, GetNode(cp).theme)
          ELSE IF ThemeAdvance(cp) = None THEN ThemeDone(theme_call.path, root_theme)
          ELSE [theme_call EXCEPT !.current_path = ThemeAdvance(cp), !.odd = ~@]
  /\ UNCHANGED <<phase, regs, dataVars, req, resp, pager, nav>>

\* the payload is handed to the caller
ThemeReturn ==
  /\ theme_call.state = "done"
  /\ theme_call' = IdleTheme
  /\ UNCHANGED <<phase, regs, dataVars, req, resp, pager, nav>>

\* a graph is made with or without a root theme
\* the index as register_node builds it when the nodes are registered once
\* each, in the order of keys
RECURSIVE IndexOfNodes(_, _)
IndexOfNodes(keys, ns) ==
  IF keys = << >> THEN << >>
  ELSE ChildrenAfterRegister(IndexOfNodes(SubSeq(keys, 1, Len(keys) - 1), ns),
                             ns[keys[Len(keys)]])

\* ContentGraph.from_dict on the graph as the builder dumped it: every node
\* is registered again, in key order, with the parent_path it was dumped
\* with; then the dumped children_by_parent replaces the index if the data
\* has that key
FromDict(with_index) ==
  /\ phase = "build"
  /\ nodes # << >>
  /\ children_by_parent' =
       IF with_index THEN children_by_parent ELSE IndexOfNodes(node_keys, nodes)
  /\ UNCHANGED <<phase, regs, root_content_path, root_theme, nodes, node_keys,
                 default_layouts, req, resp, pager, nav, theme_call>>

InitTheme ==
  /\ phase = "build"
  /\ regs = 0
  /\ root_content_path = P_s
  /\ root_theme \in {None, TH_m}
  /\ nodes = << >>
  /\ node_keys = << >>
  /\ children_by_parent = << >>
  /\ default_layouts = DEFAULT_COLLECTION_LAYOUTS
  /\ req = NoReq
  /\ resp = NoResp
  /\ pager = IdlePager
  /\ nav = IdleNav
  /\ theme_call = IdleTheme

NextTheme ==
  \/ \E node \in ThemeNodes : RegisterNode(node)
  \/ FinishBuild
  \/ \E with_index \in BOOLEAN : FromDict(with_index)
  \/ \E path \in ThemePaths : ToPagePayload(path)
  \/ \E path \in PagePaths : GetPage(path)
  \/ ThemeStep
  \/ ThemeReturn

SpecTheme == InitTheme /\ [][NextTheme]_vars

----------------------------------------------------------------------------
(* Navigation: GraphOps.get_nav, _nav_item_from_entry and the recursion of  *)
(* _build_nav_tree_for_node, one call, loop iteration or return per step.   *)

N_A == << 65 >>          \* "A"
N_B == << 66 >>          \* "B"
N_D == << 68 >>          \* "D"
N_Z == << 90 >>          \* "Z", never registered
DOT == << 46 >>          \* "."
DOT_SLASH == << 46, 47 >>
L_x == << 120 >>         \* a label

Subpage(ref, label, nav_flag) ==
  [type |-> "subpage", ref |-> ref, label |-> label, nav |-> nav_flag, blocks |-> << >>]

Section(blocks) ==
  [type |-> "section", ref |-> None, label |-> None, nav |-> FALSE, blocks |-> blocks]

Markdown ==
  [type |-> "markdown", ref |-> None, label |-> None, nav |-> FALSE, blocks |-> << >>]

MkNavNode(path, title, content) ==
  [MkNode(path, None, title, None, << >>) EXCEPT !.content = content]

NavNodes ==
  { MkNavNode(N_A, T_A, << Subpage(N_B, None, TRUE) >>),
    MkNavNode(N_A, T_A, << Section(<< Subpage(N_B, L_x, TRUE), Markdown >>),
                           Subpage(N_D, None, TRUE),
                           Subpage(N_Z, None, TRUE),
                           Subpage(N_B, None, FALSE) >>),
    MkNavNode(N_A, None, << Subpage(N_A, None, TRUE) >>),
    MkNavNode(N_B, T_B, << Subpage(N_A, None, TRUE) >>),
    MkNavNode(N_B, T_B, << Subpage(N_D, None, TRUE) >>),
    MkNavNode(N_B, T_B, << >>),
    MkNavNode(N_D, None, << Subpage(N_A, None, TRUE), Subpage(None, None, TRUE) >>),
    MkNavNode(P_s, None, << Subpage(N_A, None, TRUE), Subpage(N_B, None, TRUE) >>) }

Entry(ref, label, auto_children) ==
  [ref |-> ref, label |-> label, auto_children |-> auto_children]

\* nav_config["items"]
NavConfigs ==
  { << Entry(N_A, None, "from_subpages") >>,
    << Entry(DOT, None, "from_subpages"), Entry(N_B, L_x, "") >>,
    << Entry(N_A, None, "from_subpages"), Entry(N_B, None, "from_subpages") >>,
    << Entry(None, L_x, ""), Entry(N_Z, None, "from_subpages"),
       Entry(N_D, None, "from_subpages") >>,
    << Entry(DOT_SLASH, L_x, ""), Entry(N_A, None, "") >> }

\* (mutant) the ref is looked up as written
ResolveRefLiteral(ref) ==
  IF HasNode(ref) THEN ref ELSE None

\* _resolve_ref; None when no node is registered at the path
ResolveRef(ref) ==
  LET path == IF ref \in {DOT, DOT_SLASH} THEN root_content_path ELSE ref
  IN IF HasNode(path) THEN path ELSE None

\* (mutant) the root gets no href of its own
HrefForPathPlain(path) == << SLASH >> \o path

\* _href_for_path
HrefForPath(path) ==
  IF path = root_content_path THEN << SLASH >> ELSE << SLASH >> \o path

\* (mutant) sections are not descended into
RECURSIVE IterNavSubpagesFlat(_)
IterNavSubpagesFlat(blocks) ==
  IF blocks = << >> THEN << >>
  ELSE LET block == Head(blocks)
           rest  == IterNavSubpagesFlat(Tail(blocks))
       IN IF block.type = "subpage" /\ block.nav THEN << block >> \o rest ELSE rest

\* _iter_nav_subpages: the subpage blocks with nav set, sections descended
\* into, in declaration order
RECURSIVE IterNavSubpages(_)
IterNavSubpages(blocks) ==
  IF blocks = << >> THEN << >>
  ELSE LET block == Head(blocks)
           rest  == IterNavSubpages(Tail(blocks))
       IN IF block.type = "subpage"
          THEN (IF block.nav THEN << block >> ELSE << >>) \o rest
          ELSE IF block.type = "section"
          THEN (IF block.blocks # << >> THEN IterNavSubpages(block.blocks) ELSE << >>)
                 \o rest
          ELSE rest

\* label or node.meta.display_name or node.title or node.meta.slug or node.meta.path
EffectiveLabel(label, node) ==
  IF Truthy(label) THEN label
  ELSE IF Truthy(node.display_name) THEN node.display_name
  ELSE IF Truthy(node.title) THEN node.title
  ELSE IF Truthy(node.slug) THEN node.slug
  ELSE node.path

NavItem(label, node, children) ==
  [ label    |-> EffectiveLabel(label, node),
    href     |-> HrefForPath(node.path),
    children |-> children ]

\* (mutant) no visited check
NeverVisited(path, visited) == FALSE

\* if node.meta.path in visited
AlreadyVisited(path, visited) == path \in visited

\* an activation of _build_nav_tree_for_node(node, visited) past its visited
\* check: the blocks it iterates over, the next one, the children built so far
Frame(path) ==
  [ path     |-> path,
    blocks   |-> IterNavSubpages(GetNode(path).content),
    i        |-> 1,
    children |-> << >> ]

NavRunning == nav.state = "running"

TopFrame == nav.stack[Len(nav.stack)]

\* stack with its top frame replaced
WithTop(stack, frame) == [stack EXCEPT ![Len(stack)] = frame]

\* get_nav is called on a GraphOps made with nav_config["items"] = config
GetNav(config) ==
  /\ phase = "serve"
  /\ nav.state = "idle"
  /\ nav' = [ state   |-> "running",
              config  |-> config,
              e       |-> 1,
              items   |-> << >>,
              stack   |-> << >>,
              visited |-> {} ]
  /\ UNCHANGED <<phase, regs, dataVars, req, resp, pager, theme_call>>

\* (mutant) the visited set of the entries before is carried on
VisitedCarriedOn(visited) == visited

\* self._build_nav_tree_for_node(node): visited is None, so visited = set()
\* whatever the calls before left behind
VisitedAtEntry(visited) == {}

\* _nav_item_from_entry for the next entry of the config: the entry is
\* dropped, or gets its item at once, or has its node expanded with a fresh
\* visited set
NavEntry ==
  /\ NavRunning
  /\ nav.stack = << >>
  /\ nav.e <= Len(nav.config)
  /\ LET entry == nav.config[nav.e]
         path  == IF entry.ref = None THEN None ELSE ResolveRef(entry.ref)
     IN nav' =
          IF ~Truthy(path) \/ ~HasNode(path)
          THEN [nav EXCEPT !.e = nav.e + 1]
          ELSE IF entry.auto_children = "from_subpages"
          THEN IF AlreadyVisited(path, VisitedAtEntry(nav.visited))
               THEN [nav EXCEPT !.e = nav.e + 1,
                                !.items = Append(nav.items,
                                            NavItem(entry.label, GetNode(path), << >>))]
               ELSE [nav EXCEPT !.stack = << Frame(path) >>,
                                !.visited = VisitedAtEntry(nav.visited) \cup {path}]
          ELSE [nav EXCEPT !.e = nav.e + 1,
                           !.items = Append(nav.items,
                                       NavItem(entry.label, GetNode(path), << >>))]
  /\ UNCHANGED <<phase, regs, dataVars, req, resp, pager, theme_call>>

\* one iteration of the for loop of _build_nav_tree_for_node: the block is
\* skipped, or its target is already visited and the child gets no children,
\* or the target is marked visited and expanded
NavBlock ==
  /\ NavRunning
  /\ nav.stack # << >>
  /\ TopFrame.i <= Len(TopFrame.blocks)
  /\ LET frame == TopFrame
         block == frame.blocks[frame.i]
     IN nav' =
          IF ~Truthy(block.ref) \/ ~HasNode(block.ref)
          THEN [nav EXCEPT !.stack = WithTop(nav.stack, [frame EXCEPT !.i = frame.i + 1])]
          ELSE IF AlreadyVisited(GetNode(block.ref).path, nav.visited)
          THEN [nav EXCEPT !.stack = WithTop(nav.stack,
                  [frame EXCEPT !.i = frame.i + 1,
                                !.children = Append(frame.children,
                                   NavItem(block.label, GetNode(block.ref), << >>))])]
          ELSE [nav EXCEPT !.stack = Append(nav.stack, Frame(GetNode(block.ref).path)),
                           !.visited = nav.visited \cup {GetNode(block.ref).path}]
  /\ UNCHANGED <<phase, regs, dataVars, req, resp, pager, theme_call>>

\* return children: the caller appends the child and goes on with its next
\* block; the outermost activation returns to _nav_item_from_entry
NavReturn ==
  /\ NavRunning
  /\ nav.stack # << >>
  /\ TopFrame.i > Len(TopFrame.blocks)
  /\ LET frame == TopFrame
         depth == Len(nav.stack)
     IN nav' =
          IF depth = 1
          THEN [nav EXCEPT !.stack = << >>,
                           !.e = nav.e + 1,
                           !.items = Append(nav.items,
                                       NavItem(nav.config[nav.e].label,
                                               GetNode(frame.path), frame.children))]
          ELSE LET caller == nav.stack[depth - 1]
                   block  == caller.blocks[caller.i]
               IN [nav EXCEPT !.stack =
                     WithTop(SubSeq(nav.stack, 1, depth - 1),
                       [caller EXCEPT !.i = caller.i + 1,
                                      !.children = Append(caller.children,
                                         NavItem(block.label, GetNode(frame.path),
                                                 frame.children))])]
  /\ UNCHANGED <<phase, regs, dataVars, req, resp, pager, theme_call>>

\* return {"items": items}
NavFinish ==
  /\ NavRunning
  /\ nav.stack = << >>
  /\ nav.e > Len(nav.config)
  /\ nav' = [state |-> "done", config |-> nav.config, items |-> nav.items]
  /\ UNCHANGED <<phase, regs, dataVars, req, resp, pager, theme_call>>

\* the controller sends the payload
NavDeliver ==
  /\ nav.state = "done"
  /\ nav' = IdleNav
  /\ UNCHANGED <<phase, regs, dataVars, req, resp, pager, theme_call>>

\* the steps a call of get_nav takes by itself once made
NavRun == NavEntry \/ NavBlock \/ NavReturn \/ NavFinish

NextNav ==
  \/ \E node \in NavNodes : RegisterNode(node)
  \/ FinishBuild
  \/ \E config \in NavConfigs : GetNav(config)
  \/ NavEntry
  \/ NavBlock
  \/ NavReturn
  \/ NavFinish
  \/ NavDeliver

\* get_nav is a sequential computation: a call that can take a step takes it
SpecNav == Init /\ [][NextNav]_vars /\ WF_vars(NavRun)

----------------------------------------------------------------------------
(* All four queries on one graph, in any interleaving: a collection request *)
(* or block, a get_nav call and a get_page call can each be under way.      *)

\* a page with a nav subpage and two children registered out of title order,
\* and the root
QueryNodes ==
  { [MkNode(P_a, None, T_A, None, << S_y, S_x >>)
       EXCEPT !.content = << Subpage(P_ax, None, TRUE) >>],
    MkNode(P_ax, P_a, T_b, None, << >>),
    MkNode(P_az, P_a, T_c, T_a, << >>),
    [MkNode(P_s, None, None, None, << >>)
       EXCEPT !.content =
                << Subpage(P_a, None, TRUE),
                   Section(<< Markdown,
                              ContentCollection("folder", P_a, NoToken, << >>,
                                                Paging(TRUE, << 1 >>)) >>) >>,
              !.theme = TH_l] }

QueryRequests ==
  {Req("folder", P_a, 1, 2, st, << >>) : st \in {"name_asc", "random"}}
  \cup {Req("", P_a_slashed, 2, 1, "name_desc", << 2 >>)}

QueryQueries ==
  {[Query(NoSource, P_a, R_two, None, "name_asc", None) EXCEPT !.mode = md] :
     md \in {"list", "rows"}}

QueryBlocks ==
  {Block("folder", P_a, st, << >>, Paging(TRUE, << 1 >>), "carousel") :
     st \in {"name_asc", "random"}}
  \cup {Block("folder", P_a, "name_desc", << 2 >>, NoPaging, NoMode)}

QueryNavConfigs ==
  { << Entry(DOT, None, "from_subpages"), Entry(P_a, L_x, "") >> }

QueryPagePaths == {None, P_ax}

NextAll ==
  \/ \E node \in QueryNodes : RegisterNode(node)
  \/ FinishBuild
  \/ \E r \in QueryRequests : \E sh \in ShuffleChoices(r) : GetCollection(r, sh)
  \/ \E q \in QueryQueries :
       \E sh \in ShuffleChoices(RequestOf(q)) : HttpGetCollection(q, sh)
  \/ \E b \in QueryBlocks :
       \E sh \in BlockShuffleChoices(b) : HydrateCollectionBlock(b, sh)
  \/ Deliver
  \/ \E config \in QueryNavConfigs : GetNav(config)
  \/ NavEntry
  \/ NavBlock
  \/ NavReturn
  \/ NavFinish
  \/ NavDeliver
  \/ \E path \in QueryPagePaths : GetPage(path)
  \/ ThemeStep
  \/ ThemeReturn

SpecAll == Init /\ [][NextAll]_vars

----------------------------------------------------------------------------
(* media_folder collections: the files under the content directory *)

M_r       == << 114 >>                                  \* "r"
M_content == << 99, 111, 110, 116, 101, 110, 116 >>     \* "content"
M_server  == << 115, 101, 114, 118, 101, 114 >>         \* "server"
M_artists == << 97, 114, 116, 105, 115, 116, 115 >>     \* "artists"
M_pages   == << 112, 97, 103, 101, 115 >>               \* "pages"
M_m       == << 109 >>                                  \* "m"
M_z       == << 122 >>                                  \* "z"
M_k       == << 107 >>                                  \* "k"
M_content2 == << 99, 111, 110, 116, 101, 110, 116, 50 >> \* "content2"
DOTDOT    == << 46, 46 >>                               \* ".."

F_cd   == << 99, 32, 100, 46, 109, 112, 51 >>           \* "c d.mp3"
F_b    == << 98, 46, 109, 112, 51 >>                    \* "b.mp3"
F_Ab   == << 65, 95, 98, 46, 109, 112, 51 >>            \* "A_b.mp3"
F_n    == << 110, 46, 102, 108, 97, 99 >>               \* "n.flac"
F_t    == << 116, 46, 109, 112, 51 >>                   \* "t.mp3"
F_s    == << 115, 46, 109, 112, 51 >>                   \* "s.mp3"

\* a directory is the sequence of its names below "/"
\* content_root = repo_root / "content"
ContentRoot == << M_r, M_content >>

\* the files of the machine, each directory in the order the operating
\* system lists it: three tracks and a lossless file under
\* content/server/m, one track under content/artists/z, and one file in
\* each of /r/k and /r/content2, directories beside the content directory
Disk ==
  << [dir |-> << M_r, M_content, M_server, M_m >>, name |-> F_cd],
     [dir |-> << M_r, M_content, M_server, M_m >>, name |-> F_b],
     [dir |-> << M_r, M_content, M_server, M_m >>, name |-> F_Ab],
     [dir |-> << M_r, M_content, M_server, M_m >>, name |-> F_n],
     [dir |-> << M_r, M_content, M_artists, M_z >>, name |-> F_t],
     [dir |-> << M_r, M_k >>, name |-> F_s],
     [dir |-> << M_r, M_content2 >>, name |-> F_s] >>

\* the directories that exist: every directory above a file
DiskDirs ==
  UNION {{SubSeq(Disk[i].dir, 1, n) : n \in 0..Len(Disk[i].dir)} : i \in 1..Len(Disk)}

\* no directory: the path does not lead anywhere
NoDir == << None >>

\* the operating system follows a path name by name from a directory: each
\* name is looked up in a directory that exists, ".." is the directory above
RECURSIVE WalkFrom(_, _)
WalkFrom(dir, parts) ==
  IF dir \notin DiskDirs THEN NoDir
  ELSE IF parts = << >> THEN dir
  ELSE IF Head(parts) = DOTDOT
  THEN WalkFrom(IF dir = << >> THEN dir ELSE SubSeq(dir, 1, Len(dir) - 1), Tail(parts))
  ELSE WalkFrom(Append(dir, Head(parts)), Tail(parts))

\* the names pathlib keeps of a path string: empty names and "." are
\* dropped, ".." is kept
PathParts(s) == SelectSeq(Split(s), LAMBDA seg : seg # << >> /\ seg # DOT)

\* Path.__truediv__: an absolute right-hand side replaces the left-hand side
PathJoin(base, s) ==
  IF s # << >> /\ Head(s) = SLASH THEN PathParts(s) ELSE base \o PathParts(s)

\* a directory lies inside (or is) another
Inside(dir, root) ==
  Len(dir) >= Len(root) /\ SubSeq(dir, 1, Len(root)) = root

\* fnmatch of one name against a pattern of literal characters and "*"
RECURSIVE GlobMatch(_, _)
GlobMatch(pattern, name) ==
  IF pattern = << >> THEN name = << >>
  ELSE IF Head(pattern) = 42
  THEN \E k \in 0..Len(name) :
         GlobMatch(Tail(pattern), SubSeq(name, k + 1, Len(name)))
  ELSE /\ name # << >>
       /\ Head(name) = Head(pattern)
       /\ GlobMatch(Tail(pattern), Tail(name))

DefaultPattern == << 42, 46, 109, 112, 51 >>            \* "*.mp3"

\* media_dir of _resolve_media_folder_source, as pathlib holds it
MediaDirParts(path, current_node_path) ==
  IF Split(path)[1] \in {M_server, M_artists, M_pages}
  THEN PathJoin(ContentRoot, path)
  ELSE IF Truthy(current_node_path)
  THEN PathJoin(PathJoin(ContentRoot, current_node_path), path)
  ELSE PathJoin(ContentRoot, path)

\* the directory media_dir.glob lists: NoDir unless media_dir.exists() and
\* media_dir.is_dir()
MediaDir(path, current_node_path) ==
  IF ~Truthy(path) THEN NoDir
  ELSE WalkFrom(<< >>, MediaDirParts(path, current_node_path))

\* the names media_dir.glob(pattern) yields, in listing order
GlobNames(dir, pattern) ==
  LET hits == SelectSeq(Disk, LAMBDA f : f.dir = dir /\ GlobMatch(pattern, f.name))
  IN [i \in 1..Len(hits) |-> hits[i].name]

\* _resolve_media_folder_source: dir is the directory that was listed,
\* files the returned list; file_path.relative_to(content_root) compares
\* names without following "..", and raises ValueError for a path that does
\* not start with the names of content_root
ResolveMediaFolderSource(path, pattern, current_node_path) ==
  LET dir   == MediaDir(path, current_node_path)
      parts == MediaDirParts(path, current_node_path)
      pat   == IF Truthy(pattern) THEN pattern ELSE DefaultPattern
      names == IF dir = NoDir THEN << >> ELSE GlobNames(dir, pat)
  IN [ dir    |-> dir,
       raised |-> names # << >> /\ ~Inside(parts, ContentRoot),
       files  |-> IF ~Inside(parts, ContentRoot) THEN << >>
                  ELSE [i \in 1..Len(names) |->
                          Join(SubSeq(parts, Len(ContentRoot) + 1, Len(parts))
                               \o << names[i] >>)] ]

\* _resolve_candidates with the files of the disk: a media_folder is
\* listed, every other source is resolved in the graph
CandidatesOnDisk(source, path, pattern, current_node_path) ==
  IF source = "media_folder"
  THEN ResolveMediaFolderSource(path, pattern, current_node_path)
  ELSE [dir |-> NoDir, raised |-> FALSE, files |-> ResolveCandidates(source, path)]

\* Path(name).suffix: from the last "." on, unless that "." is the first or
\* the last character of the name
PathSuffix(name) ==
  LET dots == {k \in 1..Len(name) : name[k] = 46}
      last == CHOOSE k \in dots : \A j \in dots : j <= k
  IN IF dots # {} /\ 1 < last /\ last < Len(name)
     THEN SubSeq(name, last, Len(name))
     ELSE << >>

\* Path(name).stem
PathStem(name) == SubSeq(name, 1, Len(name) - Len(PathSuffix(name)))

\* _item_payload with source_type "media_folder"
MediaItemPayload(item_id) ==
  [ type      |-> "media_file",
    filename  |-> LastSegment(item_id),
    path      |-> item_id,
    title     |-> PathStem(LastSegment(item_id)),
    extension |-> PathSuffix(LastSegment(item_id)) ]

\* a request for a collection that may name a media_folder
MediaReq(source, path, pattern, page, page_size) ==
  [ op |-> "media_collection", source |-> source, path |-> path,
    pattern |-> pattern, page |-> page, page_size |-> page_size,
    sort |-> NoToken, limit |-> << >> ]

\* the candidates of resolve_collection; current_node_path is left at its
\* default, "server"
MediaCandidates(r) ==
  CandidatesOnDisk(SourceOrFolder(r.source), r.path, r.pattern, M_server)

\* resolve_collection for a request that may name a media_folder:
\* _item_payload is given the source as the caller passed it
ResolveMediaCollection(r) ==
  LET page       == CoercePage(r.page)
      page_size  == CoercePageSize(r.page_size)
      files      == MediaCandidates(r).files
      candidates == ApplyLimit(ApplySort(files, r.sort, r.path, files), r.limit)
      total      == Len(candidates)
      page_paths == PySlice(candidates, SliceStart(page, page_size),
                            SliceEnd(page, page_size))
  IN [ type        |-> "collection",
       source      |-> SourceOrFolder(r.source),
       path        |-> r.path,
       sort        |-> r.sort,
       items       |-> [i \in 1..Len(page_paths) |->
                          IF r.source = "media_folder"
                          THEN MediaItemPayload(page_paths[i])
                          ELSE ItemPayload(page_paths[i])],
       page        |-> page,
       page_size   |-> page_size,
       total_items |-> total,
       total_pages |-> TotalPages(total, page_size),
       has_more    |-> HasMore(page, page_size, total) ]

\* s.replace(old, ""): every occurrence of old is taken out, left to right
RECURSIVE RemoveAll(_, _)
RemoveAll(s, old) ==
  IF old = << >> \/ Len(s) < Len(old) THEN s
  ELSE IF SubSeq(s, 1, Len(old)) = old
  THEN RemoveAll(SubSeq(s, Len(old) + 1, Len(s)), old)
  ELSE << Head(s) >> \o RemoveAll(Tail(s), old)

\* the characters the class [a-zA-Z0-9-_] holds
IdChars == (97..122) \cup (65..90) \cup (48..57) \cup {45, 95}

\* re.sub(r'[^a-zA-Z0-9-_]', '-', s)
DashOthers(s) == [i \in 1..Len(s) |-> IF s[i] \in IdChars THEN s[i] ELSE 45]

\* re.sub(r'-+', '-', s)
CollapseDashes(s) ==
  SelectSeq([i \in 1..Len(s) |-> IF s[i] = 45 /\ i > 1 /\ s[i - 1] = 45 THEN 0 ELSE s[i]],
            LAMBDA c : c # 0)

\* item_id of FindTrackController.get
ItemId(filename, extension) ==
  Strip(CollapseDashes(DashOthers(RemoveAll(filename, extension))), 45)

\* index // page_size for index >= 0 and page_size # 0
FloorDiv(index, page_size) ==
  IF page_size > 0 THEN index \div page_size
  ELSE 0 - ((index + (0 - page_size) - 1) \div (0 - page_size))

\* the query string of GET /api/collection/find-track
FindQuery(track_id, source, path, pattern, page_size) ==
  [ op |-> "find_track", track_id |-> track_id, source |-> source, path |-> path,
    pattern |-> pattern, page_size |-> page_size ]

\* the request find-track passes to get_collection
FindRequest(q) ==
  MediaReq(IF q.source = NoSource THEN "media_folder" ELSE q.source,
           q.path, q.pattern, 1, 999999)

\* the positions of the items whose item_id is the track_id
FindMatches(items, track_id) ==
  {i \in 1..Len(items) :
     /\ "type" \in DOMAIN items[i]
     /\ items[i].type = "media_file"
     /\ ItemId(items[i].filename, items[i].extension) = track_id}

\* the answer of a search that matched at a position (1-based here)
FoundAnswer(items, i, page_size) ==
  [ found       |-> TRUE,
    page        |-> FloorDiv(i - 1, page_size) + 1,
    index       |-> i - 1,
    total_items |-> Len(items),
    filename    |-> items[i].filename,
    item_id     |-> ItemId(items[i].filename, items[i].extension) ]

\* the response of FindTrackController.get; an exception that leaves the
\* handler is answered 500
FindTrackResponse(q) ==
  IF ~Truthy(q.track_id) \/ ~Truthy(q.path) THEN HttpError(400)
  ELSE IF MediaCandidates(FindRequest(q)).raised THEN HttpError(500)
  ELSE LET page_size == IntArg(q.page_size, 10)
           items     == ResolveMediaCollection(FindRequest(q)).items
           matches   == FindMatches(items, q.track_id)
           first     == CHOOSE i \in matches : \A j \in matches : i <= j
       IN IF items = << >>
          THEN [type |-> "http", status |-> 404, body |-> [found |-> FALSE]]
          ELSE IF matches = {}
          THEN HttpOk([found |-> FALSE, total_items |-> Len(items)])
          ELSE IF page_size = 0 THEN HttpError(500)
          ELSE HttpOk(FoundAnswer(items, first, page_size))

\* FindTrackController.get
FindTrack(q) ==
  /\ Idle
  /\ req' = q
  /\ resp' = FindTrackResponse(q)
  /\ UNCHANGED <<phase, regs, dataVars, pager, nav, theme_call>>

\* the query string of GET /api/collection for a media folder
MediaQuery(source, path, pattern, page, page_size) ==
  [ op |-> "http_media", source |-> source, path |-> path, pattern |-> pattern,
    page |-> page, page_size |-> page_size ]

\* the request CollectionsController.get passes on
MediaRequestOf(q) ==
  MediaReq(IF q.source = NoSource THEN "folder" ELSE q.source, q.path, q.pattern,
           IntArg(q.page, 1), IntArg(q.page_size, DefaultPageSize))

\* CollectionsController.get for a media folder
HttpGetMediaCollection(q) ==
  /\ Idle
  /\ req' = q
  /\ resp' = IF ~Truthy(q.path) THEN HttpError(400)
             ELSE IF MediaCandidates(MediaRequestOf(q)).raised THEN HttpError(500)
             ELSE HttpOk(ResolveMediaCollection(MediaRequestOf(q)))
  /\ UNCHANGED <<phase, regs, dataVars, pager, nav, theme_call>>

\* _resolve_candidates for a media_folder block of the page at
\* current_node_path
ListMediaFolder(path, pattern, current_node_path) ==
  /\ Idle
  /\ req' = [ op |-> "list_media", path |-> path, pattern |-> pattern,
              current_node_path |-> current_node_path ]
  /\ resp' = CandidatesOnDisk("media_folder", path, pattern, current_node_path)
  /\ UNCHANGED <<phase, regs, dataVars, pager, nav, theme_call>>

MP_m       == << 109 >>                                              \* "m"
MP_abs     == << 115, 101, 114, 118, 101, 114, 47, 109 >>            \* "server/m"
MP_z       == << 97, 114, 116, 105, 115, 116, 115, 47, 122 >>        \* "artists/z"
MP_up      == << 46, 46, 47, 46, 46, 47, 107 >>                      \* "../../k"
MP_abs_up  == << 115, 101, 114, 118, 101, 114, 47, 46, 46, 47, 46, 46, 47, 107 >>
                                                                     \* "server/../../k"
MP_rooted  == << 47, 114, 47, 107 >>                                 \* "/r/k"
MP_nope    == << 110, 111, 112, 101 >>                               \* "nope"
MP_back    == << 109, 47, 46, 46, 47, 109 >>                         \* "m/../m"

MediaPaths ==
  {None, << >>, MP_m, MP_abs, MP_z, MP_up, MP_abs_up, MP_rooted, MP_nope, MP_back}

PT_all  == << 42 >>                                                  \* "*"
PT_flac == << 42, 46, 102, 108, 97, 99 >>                            \* "*.flac"

Patterns == {None, PT_all, PT_flac, F_b}

K_b    == << 98 >>                  \* "b"
K_B    == << 66 >>                  \* "B"
K_A_b  == << 65, 95, 98 >>          \* "A_b"
K_Ab   == << 65, 45, 98 >>          \* "A-b"
K_ab   == << 97, 45, 98 >>          \* "a-b"
K_cd   == << 99, 45, 100 >>         \* "c-d"
K_zz   == << 122, 122 >>            \* "zz"
K_s    == << 115 >>                 \* "s"
K_n    == << 110 >>                 \* "n"

TrackIds == {None, K_b, K_B, K_A_b, K_Ab, K_ab, K_cd, K_zz, K_s, K_n}

R_one == << 49 >>                                                    \* "1"

FindQueries ==
  {FindQuery(t, NoSource, pt, pn, ps) :
      t \in TrackIds, pt \in MediaPaths, pn \in {None, PT_all},
      ps \in {None, R_one, R_two, R_zero, R_neg, R_x}}
  \cup {FindQuery(t, "folder", MP_abs, None, None) : t \in {K_b, K_zz}}

MediaQueries ==
  {MediaQuery("media_folder", pt, pn, pg, ps) :
      pt \in MediaPaths, pn \in Patterns, pg \in {None, R_zero, R_two},
      ps \in {None, R_one, R_two, R_neg}}
  \cup {MediaQuery(NoSource, MP_abs, None, None, None)}

CurrentNodePaths == {M_server, << >>, MP_z, MP_abs}

\* the value of a hexadecimal digit, -1 for any other character
HexValue(c) ==
  IF c \in 48..57 THEN c - 48
  ELSE IF c \in 65..70 THEN c - 55
  ELSE IF c \in 97..102 THEN c - 87
  ELSE -1

\* the path of a URL as the handler receives it: %XX stands for the
\* character with that code
RECURSIVE UrlDecode(_)
UrlDecode(raw) ==
  IF raw = << >> THEN << >>
  ELSE IF /\ Head(raw) = 37
          /\ Len(raw) >= 3
          /\ HexValue(raw[2]) >= 0
          /\ HexValue(raw[3]) >= 0
  THEN << 16 * HexValue(raw[2]) + HexValue(raw[3]) >>
         \o UrlDecode(SubSeq(raw, 4, Len(raw)))
  ELSE << Head(raw) >> \o UrlDecode(Tail(raw))

\* Path.resolve() on a disk without symbolic links: ".." takes the last
\* name away, and the root is its own parent
RECURSIVE ResolveFrom(_, _)
ResolveFrom(done, parts) ==
  IF parts = << >> THEN done
  ELSE IF Head(parts) = DOTDOT
  THEN ResolveFrom(IF done = << >> THEN done ELSE SubSeq(done, 1, Len(done) - 1),
                   Tail(parts))
  ELSE ResolveFrom(Append(done, Head(parts)), Tail(parts))

\* str(path) of an absolute path
PathStr(parts) == << SLASH >> \o Join(parts)

\* path.exists() and path.is_file()
IsFile(parts) ==
  \E i \in 1..Len(Disk) : Disk[i].dir \o << Disk[i].name >> = parts

\* the response of ContentController.get (and of serve_content_asset, which
\* has the same body): 403 unless str(requested_path) starts with
\* str(content_root), 404 unless it is a file, else the file
ContentResponse(raw) ==
  LET requested_path == ResolveFrom(<< >>, PathJoin(ContentRoot, UrlDecode(raw)))
  IN IF ~StartsWith(PathStr(requested_path), PathStr(ContentRoot)) THEN HttpError(403)
     ELSE IF ~IsFile(requested_path) THEN HttpError(404)
     ELSE [type |-> "http", status |-> 200, body |-> [file |-> requested_path]]

\* GET /content/<path:filepath>
ServeContent(raw) ==
  /\ Idle
  /\ req' = [op |-> "content", filepath |-> raw]
  /\ resp' = ContentResponse(raw)
  /\ UNCHANGED <<phase, regs, dataVars, pager, nav, theme_call>>

U_track    == << 115, 101, 114, 118, 101, 114, 47, 109, 47, 98, 46, 109, 112, 51 >>
                                                  \* "server/m/b.mp3"
U_spaced   == << 115, 101, 114, 118, 101, 114, 47, 109, 47, 99, 37, 50, 48, 100,
                 46, 109, 112, 51 >>              \* "server/m/c%20d.mp3"
U_dir      == << 115, 101, 114, 118, 101, 114, 47, 109 >>
                                                  \* "server/m"
U_missing  == << 110, 111, 112, 101, 47, 102, 46, 106, 112, 103 >>
                                                  \* "nope/f.jpg"
U_passwd   == << 46, 46, 47, 46, 46, 47, 46, 46, 47, 101, 116, 99, 47, 112, 97,
                 115, 115, 119, 100 >>            \* "../../../etc/passwd"
U_up       == << 46, 46, 47, 107, 47, 115, 46, 109, 112, 51 >>
                                                  \* "../k/s.mp3"
U_up_enc   == << 46, 46, 37, 50, 70, 107, 37, 50, 70, 115, 46, 109, 112, 51 >>
                                                  \* "..%2Fk%2Fs.mp3"
U_dots_enc == << 37, 50, 101, 37, 50, 101, 47, 107, 47, 115, 46, 109, 112, 51 >>
                                                  \* "%2e%2e/k/s.mp3"
U_rooted   == << 47, 114, 47, 107, 47, 115, 46, 109, 112, 51 >>
                                                  \* "/r/k/s.mp3"
U_sibling  == << 46, 46, 47, 99, 111, 110, 116, 101, 110, 116, 50, 47, 115, 46,
                 109, 112, 51 >>                  \* "../content2/s.mp3"
U_sibling_enc == << 46, 46, 37, 50, 70, 99, 111, 110, 116, 101, 110, 116, 50, 37,
                    50, 70, 115, 46, 109, 112, 51 >>
                                                  \* "..%2Fcontent2%2Fs.mp3"
U_around   == << 46, 46, 47, 99, 111, 110, 116, 101, 110, 116, 47, 115, 101, 114,
                 118, 101, 114, 47, 109, 47, 98, 46, 109, 112, 51 >>
                                                  \* "../content/server/m/b.mp3"
U_through  == << 110, 111, 112, 101, 47, 46, 46, 47, 115, 101, 114, 118, 101, 114,
                 47, 109, 47, 98, 46, 109, 112, 51 >>
                                                  \* "nope/../server/m/b.mp3"

ContentUrls ==
  { U_track, U_spaced, U_dir, U_missing, U_passwd, U_up, U_up_enc, U_dots_enc,
    U_rooted, U_sibling, U_sibling_enc, U_around, U_through }

\* the site is served as built and asked for media collections and files
NextMedia ==
  \/ FinishBuild
  \/ \E q \in FindQueries : FindTrack(q)
  \/ \E q \in MediaQueries : HttpGetMediaCollection(q)
  \/ \E pt \in MediaPaths : \E pn \in Patterns : \E cur \in CurrentNodePaths :
       ListMediaFolder(pt, pn, cur)
  \/ \E raw \in ContentUrls : ServeContent(raw)
  \/ Deliver

SpecMedia == Init /\ [][NextMedia]_vars

----------------------------------------------------------------------------
(* Theme resolution on graphs registered by hand: register_node takes any   *)
(* parent_path, so a node can name itself or a descendant as its parent     *)

HandMadeNodes ==
  { MkThemeNode(P_g,   P_g,   None),
    MkThemeNode(P_g,   None,  TH_d),
    MkThemeNode(P_gp,  P_gpn, None),
    MkThemeNode(P_gp,  P_g,   None),
    MkThemeNode(P_gpn, P_gp,  None),
    MkThemeNode(P_gpn, P_s,   None),
    MkThemeNode(P_gpn, P_gp,  TH_l) }

NextThemeFair ==
  \/ \E node \in HandMadeNodes : RegisterNode(node)
  \/ FinishBuild
  \/ \E path \in ThemePaths : ToPagePayload(path)
  \/ ThemeStep
  \/ ThemeReturn

\* the loop of _resolve_theme keeps running: an iteration that can be taken
\* is taken
SpecThemeFair == InitTheme /\ [][NextThemeFair]_vars /\ WF_vars(ThemeStep)

----------------------------------------------------------------------------
(* Collections asked for with a layout of their own *)

\* layouts a caller hands to resolve_collection: none, a known, an unknown
\* and an empty mode, part of a nested dict, a nested dict beside a key the
\* defaults do not have, a string over a nested default, an empty dict
CallerLayouts ==
  { NoLayout,
    [mode |-> StrV("list")],
    [mode |-> StrV("rows")],
    [mode |-> StrV("")],
    [columns |-> [xl |-> IntV(6)]],
    [mode |-> StrV("carousel"), autoplay |-> [enabled |-> BoolV(FALSE)],
     extra |-> [y |-> IntV(1)]],
    [align |-> StrV("center")],
    [mode |-> StrV("grid"), gap |-> << >>] }

\* the CollectionLayout fields an author sets on a block; NoLayout for a
\* block without a layout
AuthoredLayouts ==
  { NoLayout,
    [mode |-> StrV("carousel")],
    [mode |-> StrV("grid"), gap |-> [row |-> StrV("2rem")]],
    [mode |-> StrV("list"), dense |-> BoolV(TRUE)],
    [columns |-> [xl |-> IntV(6)]] }

LayoutRequests ==
  {[Req("folder", P_a, 1, ps, NoToken, << >>) EXCEPT !.layout = l] :
     ps \in {1, 2}, l \in CallerLayouts}

LayoutBlocks ==
  {[Block("folder", P_a, NoToken, << >>, pg, NoMode) EXCEPT !.layout = l] :
     pg \in {NoPaging, Paging(TRUE, << 1 >>)}, l \in AuthoredLayouts}

NextLayout ==
  \/ \E node \in QueryNodes : RegisterNode(node)
  \/ FinishBuild
  \/ Idle /\ \E r \in LayoutRequests : GetCollection(r, Candidates(r))
  \/ Idle /\ \E b \in LayoutBlocks : HydrateCollectionBlock(b, BlockCandidates(b))
  \/ Deliver

SpecLayout == Init /\ [][NextLayout]_vars

----------------------------------------------------------------------------
(* Vocabulary of the properties *)

IsCollectionAnswer == req.op = "collection" /\ resp.type = "collection"

\* the least n with n * b >= a
CeilDiv(a, b) == CHOOSE n \in 0..a : n * b >= a /\ (n = 0 \/ (n - 1) * b < a)

\* the answer shows the whole candidate list on one page
WholeListShown ==
  /\ IsCollectionAnswer
  /\ resp.page = 1
  /\ Len(resp.items) = Len(Candidates(req))

PositiveLimit(limit) == limit # << >> /\ limit[1] > 0

----------------------------------------------------------------------------
(* C5: total_pages = ceil(total_items / page_size) *)

\* C5: in every answer of resolve_collection, page_size is at least 1,
\* total_items is the number of candidates left after sort and limit, and
\* total_pages is the ceiling of total_items / page_size.
C5_TotalPagesIsCeiling ==
  IsCollectionAnswer =>
    /\ resp.page_size >= 1
    /\ resp.total_items = Len(ApplyLimit(Candidates(req), req.limit))
    /\ resp.total_pages = CeilDiv(resp.total_items, resp.page_size)

\* three items at two per page make two pages
C5_Witness ==
  /\ IsCollectionAnswer
  /\ resp.total_items = 3
  /\ resp.page_size = 2
  /\ resp.total_pages = 2

----------------------------------------------------------------------------
(* C6: has_more *)

\* C6: for page >= 1 and page_size >= 1, has_more is true exactly when
\* page < total_pages, which is exactly when the end of the slice lies before
\* total_items; so it is false on the last page and on every page after it.
C6_HasMoreIffPageBeforeLast ==
  (IsCollectionAnswer /\ req.page >= 1 /\ req.page_size >= 1) =>
    /\ resp.has_more <=> (req.page < resp.total_pages)
    /\ resp.has_more <=> (req.page * req.page_size < resp.total_items)
    /\ (req.page >= resp.total_pages) => ~resp.has_more

\* the last page of several, with items on it
C6_Witness ==
  /\ IsCollectionAnswer
  /\ req.page = 2 /\ req.page_size = 1
  /\ resp.total_pages = 2
  /\ Len(resp.items) = 1
  /\ ~resp.has_more

----------------------------------------------------------------------------
(* C10: limit *)

\* C10: a positive limit L leaves the first L entries of the sorted list, so
\* total_items = min(L, number of candidates), and total_pages, has_more and the
\* page's items are those of the truncated list; a missing, zero or negative
\* limit truncates nothing.
C10_LimitTruncatesBeforePaging ==
  IsCollectionAnswer =>
    LET n      == Len(Candidates(req))
        kept   == IF PositiveLimit(req.limit) THEN Min2(req.limit[1], n) ELSE n
        sorted == ApplySort(Candidates(req), req.sort, req.path, Candidates(req))
        first  == (resp.page - 1) * resp.page_size
    IN /\ resp.total_items = kept
       /\ resp.total_pages = CeilDiv(kept, resp.page_size)
       /\ resp.has_more <=> (resp.page * resp.page_size < kept)
       /\ Len(resp.items) = Max2(0, Min2(kept - first, resp.page_size))
       /\ req.sort # "random" =>
            \A i \in 1..Len(resp.items) : resp.items[i].path = sorted[first + i]

\* three candidates cut to two
C10_Witness ==
  /\ IsCollectionAnswer
  /\ req.limit = << 2 >>
  /\ Len(Candidates(req)) = 3
  /\ resp.total_items = 2
  /\ Len(resp.items) = 2

----------------------------------------------------------------------------
(* C1: the pages of one query, put end to end *)

PagerDone == pager.state = "done"

\* C1 as stated: for every sort setting, a client that fetches pages
\* 1..total_pages with the same parameters and joins their items in page order
\* holds the full sorted-and-limited candidate list (for random: one shuffle of
\* the candidates, limited), every item once.
C1_AsStated ==
  PagerDone =>
    \E sh \in ShuffleChoices(pager.r) : pager.acc = SortedLimited(pager.r, sh)

\* C1 (amended): for every sort setting other than random, the joined pages
\* are exactly the sorted-and-limited candidate list, in order; with random
\* every call shuffles anew, and only the number of joined items is that of
\* the limited list.
C1_PagesJoinToSortedLimitedList ==
  PagerDone =>
    /\ Len(pager.acc) = Len(SortedLimited(pager.r, Candidates(pager.r)))
    /\ pager.r.sort # "random" =>
         pager.acc = SortedLimited(pager.r, Candidates(pager.r))

\* three candidates fetched one per page
C1_Witness ==
  /\ PagerDone
  /\ pager.r.sort # "random"
  /\ pager.r.page_size = 1
  /\ pager.total_pages = 3
  /\ Len(pager.acc) = 3
  /\ pager.acc[1] # pager.acc[3]

----------------------------------------------------------------------------
(* Orderings, stated without the sort that produces them *)

Count(seq, x) == Cardinality({i \in 1..Len(seq) : seq[i] = x})

IsPermutation(out, cands) ==
  /\ Len(out) = Len(cands)
  /\ \A x \in Range(cands) \cup Range(out) : Count(out, x) = Count(cands, x)

TitleAscending(seq) ==
  \A i, j \in 1..Len(seq) :
    i < j => ~StrLess(TitleKey(seq[j]), TitleKey(seq[i]))

TitleDescending(seq) ==
  \A i, j \in 1..Len(seq) :
    i < j => ~StrLess(TitleKey(seq[i]), TitleKey(seq[j]))

\* candidates whose titles are equal ignoring case stand in out as in cands
TiesKeepOrder(out, cands) ==
  \A x \in Range(cands) :
    LET same(y) == TitleKey(y) = TitleKey(x)
    IN SelectSeq(out, same) = SelectSeq(cands, same)

\* two different candidates with titles equal ignoring case
HasTitleTie(cands) ==
  \E x, y \in Range(cands) : x # y /\ TitleKey(x) = TitleKey(y)

\* the whole list of a folder query answered on one page
ShownPaths == ItemPaths(resp.items)

----------------------------------------------------------------------------
(* C9: name_desc against name_asc *)

NameAscOf(r) == ApplySort(Candidates(r), "name_asc", r.path, Candidates(r))

\* C9 as stated: the name_desc ordering of a candidate list is the exact
\* reverse of its name_asc ordering, also when two candidates have titles that
\* are equal ignoring case.
C9_AsStated ==
  (WholeListShown /\ req.sort = "name_desc") =>
    ShownPaths = Reverse(NameAscOf(req))

\* C9 (amended): name_desc orders the candidates by falling title (ignoring
\* case) and name_asc by rising title; candidates whose titles are equal
\* ignoring case keep their candidate order in both. So name_desc is the exact
\* reverse of name_asc when no two different candidates have titles equal
\* ignoring case, and otherwise the reverse except that each run of equal
\* titles stands in the same order in both.
C9_NameDescReversesUpToTies ==
  (WholeListShown /\ req.sort = "name_desc") =>
    /\ IsPermutation(ShownPaths, Candidates(req))
    /\ TitleDescending(ShownPaths)
    /\ TitleAscending(NameAscOf(req))
    /\ TiesKeepOrder(ShownPaths, Candidates(req))
    /\ TiesKeepOrder(NameAscOf(req), Candidates(req))
    /\ ~HasTitleTie(Candidates(req)) => ShownPaths = Reverse(NameAscOf(req))

\* three candidates, two of them titled "b" and "B": name_desc is not the
\* reverse of name_asc, and it is not name_asc either
C9_Witness ==
  /\ WholeListShown
  /\ req.sort = "name_desc"
  /\ Len(ShownPaths) = 3
  /\ HasTitleTie(Candidates(req))
  /\ ShownPaths # Reverse(NameAscOf(req))
  /\ ShownPaths # NameAscOf(req)

----------------------------------------------------------------------------
(* C7, C8: collection_order and the sort token *)

\* the slug of a candidate is listed in order
Listed(order, p) == LastSegment(p) \in Range(order)

\* the place of a listed candidate: the last place its slug is listed at
ListedAt(order, p) ==
  CHOOSE i \in 1..Len(order) :
    /\ order[i] = LastSegment(p)
    /\ \A j \in 1..Len(order) : order[j] = LastSegment(p) => j <= i

\* listed candidates first and by their place, the others after them by
\* rising title
OrderedByCollectionOrder(out, order) ==
  \A i, j \in 1..Len(out) :
    i < j =>
      /\ Listed(order, out[j]) => Listed(order, out[i])
      /\ (Listed(order, out[i]) /\ Listed(order, out[j])) =>
           ListedAt(order, out[i]) <= ListedAt(order, out[j])
      /\ (~Listed(order, out[i]) /\ ~Listed(order, out[j])) =>
           ~StrLess(TitleKey(out[j]), TitleKey(out[i]))

RecognisedTokens == {"random", "name_asc", "name_desc"}

\* the order declared by the node the query's path names
DeclaredOrder(r) == collection_order(GetNode(r.path))

----------------------------------------------------------------------------
(* C2: the children of a folder *)

\* a folder query whose answer carries every candidate
WholeFolderShown ==
  /\ IsCollectionAnswer
  /\ req.source = "folder"
  /\ Truthy(req.path)
  /\ resp.page = 1
  /\ resp.total_items <= resp.page_size
  /\ ~PositiveLimit(req.limit)

FolderBase == Strip(req.path, SLASH)

\* the registered nodes whose parent_path is base
NodesWithParent(base) == {p \in DOMAIN nodes : nodes[p].parent_path = base}

\* the registered paths that are base, a slash and one more segment
PathsDirectlyUnder(base) ==
  {p \in DOMAIN nodes : Contains(p, SLASH) /\ DropLastSegment(p) = base}

\* every node's parent_path is its path without the last segment (none for a
\* path of one segment), and the index lists under each key the nodes with
\* that parent_path
ParentsFollowPaths ==
  /\ \A p \in DOMAIN nodes :
       nodes[p].parent_path =
         (IF Contains(p, SLASH) THEN DropLastSegment(p) ELSE None)
  /\ \A k \in DOMAIN children_by_parent :
       Range(children_by_parent[k]) = NodesWithParent(k)

\* C2 as stated: a folder query returns exactly the registered nodes whose
\* parent is the folder, and the fast index and the prefix scan give the same
\* set.
C2_AsStated ==
  WholeFolderShown =>
    /\ Range(ShownPaths) = NodesWithParent(FolderBase)
    /\ FolderBase \in DOMAIN children_by_parent =>
         Range(FastLookup(FolderBase)) = Range(PrefixScan(FolderBase))

\* C2 (amended): with P stripped of leading and trailing slashes, a folder
\* query returns the entries of children_by_parent[P] when P is a key of the
\* index (the paths registered with parent_path P, once per registration), and
\* otherwise the registered paths that are P plus exactly one segment, each
\* once. The two lookups give the same set, the nodes whose parent_path is P,
\* when every node's parent_path is its path without the last segment and the
\* index lists exactly the nodes with each parent_path.
C2_FolderReturnsIndexedOrScannedChildren ==
  WholeFolderShown =>
    /\ FolderBase \in DOMAIN children_by_parent =>
         IsPermutation(ShownPaths, children_by_parent[FolderBase])
    /\ FolderBase \notin DOMAIN children_by_parent =>
         /\ Range(ShownPaths) = PathsDirectlyUnder(FolderBase)
         /\ \A x \in Range(ShownPaths) : Count(ShownPaths, x) = 1
    /\ ParentsFollowPaths =>
         /\ Range(ShownPaths) = NodesWithParent(FolderBase)
         /\ Range(PrefixScan(FolderBase)) = NodesWithParent(FolderBase)

\* folder "/a/" with a, a/x and a/y registered: the index answers, and the
\* scan would have found the same two
C2_Witness ==
  /\ WholeFolderShown
  /\ req.path = P_a_slashed
  /\ ParentsFollowPaths
  /\ P_a \in DOMAIN children_by_parent
  /\ Range(ShownPaths) = {P_ax, P_ay}
  /\ Range(PrefixScan(P_a)) = {P_ax, P_ay}

----------------------------------------------------------------------------
(* C4: theme found past a missing parent *)

ThemeAnswered == theme_call.state = "done" /\ theme_call.found

\* the path without its last segment / without its last two segments
ParentByPath(p) == DropLastSegment(p)

GrandparentByPath(p) == DropLastSegment(DropLastSegment(p))

\* N has no theme, the path above it is not registered, the path two above
\* it is registered with a theme
ThemeTwoAbove(n) ==
  /\ HasNode(n)
  /\ ~Truthy(GetNode(n).theme)
  /\ Len(Split(n)) >= 3
  /\ ~HasNode(ParentByPath(n))
  /\ ThemeFound(GrandparentByPath(n))

\* C4 as stated: a registered node N without a theme, whose parent path is
\* not registered and whose grandparent path is registered with theme T,
\* resolves to T.
C4_AsStated ==
  (ThemeAnswered /\ ThemeTwoAbove(theme_call.path)) =>
    theme_call.effective_theme = GetNode(GrandparentByPath(theme_call.path)).theme

\* C4 (amended): ... and N's parent_path is unset, or is N's path without its
\* last segment, or is the grandparent path itself: then N resolves to T. A
\* parent_path set to anything else is followed instead of the path string.
C4_ThemeFoundByTruncation ==
  (/\ ThemeAnswered
   /\ ThemeTwoAbove(theme_call.path)
   /\ \/ ~Truthy(GetNode(theme_call.path).parent_path)
      \/ GetNode(theme_call.path).parent_path = ParentByPath(theme_call.path)
      \/ GetNode(theme_call.path).parent_path = GrandparentByPath(theme_call.path))
  => theme_call.effective_theme = GetNode(GrandparentByPath(theme_call.path)).theme

\* g/p/n as from_dict leaves it (no parent_path), g/p missing, g themed "d",
\* a root theme that is not "d"
C4_Witness ==
  /\ ThemeAnswered
  /\ theme_call.path = P_gpn
  /\ ThemeTwoAbove(P_gpn)
  /\ ~Truthy(GetNode(P_gpn).parent_path)
  /\ root_theme = TH_m
  /\ theme_call.effective_theme = TH_d

----------------------------------------------------------------------------
(* C3: get_nav on graphs with reference cycles *)

NavDone == nav.state = "done"

\* the longest chain of items from item downwards
RECURSIVE TreeDepth(_)
TreeDepth(item) ==
  IF item.children = << >> THEN 1
  ELSE 1 + CHOOSE d \in {TreeDepth(item.children[k]) : k \in 1..Len(item.children)} :
             \A k \in 1..Len(item.children) : TreeDepth(item.children[k]) <= d

\* an occurrence of a node beneath an occurrence of the same node has no
\* children
RECURSIVE NoReexpansionBelow(_, _)
NoReexpansionBelow(item, above) ==
  /\ item.href \in above => item.children = << >>
  /\ \A k \in 1..Len(item.children) :
       NoReexpansionBelow(item.children[k], above \cup {item.href})

\* the number of occurrences of href in the tree of item that carry children
RECURSIVE Expansions(_, _)
Expansions(item, href) ==
  LET below[k \in 0..Len(item.children)] ==
        IF k = 0 THEN 0 ELSE below[k - 1] + Expansions(item.children[k], href)
  IN (IF item.href = href /\ item.children # << >> THEN 1 ELSE 0)
       + below[Len(item.children)]

Hrefs == {HrefForPath(p) : p \in DOMAIN nodes}

\* while get_nav runs: the activations on the stack are of different nodes,
\* all of them marked visited
NavStackIsAChain ==
  NavRunning =>
    /\ \A a, b \in 1..Len(nav.stack) :
         a # b => nav.stack[a].path # nav.stack[b].path
    /\ \A a \in 1..Len(nav.stack) : nav.stack[a].path \in nav.visited
    /\ nav.visited \subseteq DOMAIN nodes
    /\ Len(nav.stack) <= Cardinality(DOMAIN nodes)

\* what get_nav returns: a tree no deeper than there are nodes, in which no
\* node is expanded beneath itself and each node is expanded at most once per
\* top-level item
NavResultIsFinite ==
  NavDone =>
    \A t \in 1..Len(nav.items) :
      /\ TreeDepth(nav.items[t]) <= Cardinality(DOMAIN nodes) + 1
      /\ NoReexpansionBelow(nav.items[t], {})
      /\ \A h \in Hrefs : Expansions(nav.items[t], h) <= 1

\* C3: every call of get_nav terminates with a finite tree, also when an
\* auto_children entry points into a reference cycle: the recursion never
\* holds a node twice, each node's subpage children are expanded at most once
\* per top-level entry, and an occurrence of a node beneath its own subtree
\* has an empty children list.
C3_NavTerminatesWithFiniteTree ==
  /\ [](NavStackIsAChain /\ NavResultIsFinite)
  /\ (NavRunning ~> NavDone)

\* A references B and B references A: the entry for A yields A > B > A, the
\* inner A with no children
C3_Witness ==
  /\ NavDone
  /\ nav.config = << Entry(N_A, None, "from_subpages") >>
  /\ Len(nav.items) = 1
  /\ nav.items[1].href = HrefForPath(N_A)
  /\ Len(nav.items[1].children) = 1
  /\ nav.items[1].children[1].href = HrefForPath(N_B)
  /\ Len(nav.items[1].children[1].children) = 1
  /\ nav.items[1].children[1].children[1].href = HrefForPath(N_A)
  /\ nav.items[1].children[1].children[1].children = << >>

----------------------------------------------------------------------------
(* C11: nothing to find *)

\* the source the resolver works with: source or "folder"
SourceOf(r) == IF r.source = "" THEN "folder" ELSE r.source

\* no index entry with children and no registered path directly under the
\* folder
FolderHasNoChildren(base) ==
  /\ base \in DOMAIN children_by_parent => children_by_parent[base] = << >>
  /\ PathsDirectlyUnder(base) = {}

\* the cases in which candidate resolution finds nothing
NothingToFind(r) ==
  \/ SourceOf(r) \notin {"folder", "media_folder"}
  \/ SourceOf(r) = "folder" /\ ~Truthy(r.path)
  \/ SourceOf(r) = "folder" /\ Truthy(r.path)
       /\ FolderHasNoChildren(Strip(r.path, SLASH))

\* C11: when the source is unknown or reserved, the path is missing or empty,
\* or the folder has no registered children, resolve_collection answers with
\* a collection payload that has no items, total_items = 0, total_pages = 0
\* and has_more = false, with page and page_size coerced as always.
C11_NothingFoundGivesEmptyPayload ==
  (IsCollectionAnswer /\ NothingToFind(req)) =>
    /\ resp.type = "collection"
    /\ resp.items = << >>
    /\ resp.total_items = 0
    /\ resp.total_pages = 0
    /\ ~resp.has_more
    /\ resp.page >= 1 /\ resp.page_size >= 1

\* source roster asked for folder a, which has children
C11_Witness ==
  /\ IsCollectionAnswer
  /\ req.source = "roster"
  /\ req.path = P_a
  /\ P_a \in DOMAIN children_by_parent
  /\ resp.items = << >>
  /\ resp.total_items = 0

----------------------------------------------------------------------------
(* C12: page and page_size of the query string *)

IsHttpAnswer == req.op = "http_collection" /\ resp.type = "http"

\* the parameter is written as a whole number: an optional sign and digits,
\* blanks around them
LooksNumeric(raw) ==
  /\ raw # None
  /\ \E i \in 1..Len(raw) : raw[i] \in Digits
  /\ \A i \in 1..Len(raw) :
       \/ raw[i] \in Digits
       \/ raw[i] = 32 /\ (\A j \in 1..i : raw[j] = 32)
       \/ raw[i] \in {43, 45} /\ i < Len(raw) /\ raw[i + 1] \in Digits
            /\ (\A j \in 1..(i - 1) : raw[j] = 32)

\* C12: whatever page and page_size the query string carries, a request with
\* a path is answered 200 with page >= 1 and page_size >= 1; a page that is
\* missing or not a number is reported as 1, a page_size that is missing or
\* not a number as 24.
C12_PageAndPageSizeCoerced ==
  (IsHttpAnswer /\ Truthy(req.path)) =>
    /\ resp.status = 200
    /\ resp.body.type = "collection"
    /\ resp.body.page >= 1
    /\ resp.body.page_size >= 1
    /\ ~LooksNumeric(req.page) => resp.body.page = 1
    /\ ~LooksNumeric(req.page_size) => resp.body.page_size = DefaultPageSize

\* page=-1 is answered with page 1
C12_Witness ==
  /\ IsHttpAnswer
  /\ req.page = R_neg
  /\ resp.status = 200
  /\ resp.body.page = 1
  /\ Len(resp.body.items) >= 1

----------------------------------------------------------------------------
(* C13: a page past the last *)

\* the length of the candidate list once a positive limit has cut it
KeptCount(r) ==
  IF PositiveLimit(r.limit)
  THEN Min2(r.limit[1], Len(Candidates(r)))
  ELSE Len(Candidates(r))

\* C13: a request for a page greater than total_pages is answered with an
\* empty items list and has_more = false, while total_items and total_pages
\* are those of the whole sorted-and-limited list.
C13_PagePastLastIsEmpty ==
  (IsCollectionAnswer /\ resp.page > resp.total_pages) =>
    /\ resp.type = "collection"
    /\ resp.items = << >>
    /\ ~resp.has_more
    /\ resp.total_items = KeptCount(req)
    /\ resp.total_pages = CeilDiv(KeptCount(req), resp.page_size)

\* page 3 of a list that fills two pages
C13_Witness ==
  /\ IsCollectionAnswer
  /\ req.page = 3
  /\ resp.total_pages = 2
  /\ resp.total_items = 3
  /\ resp.items = << >>

----------------------------------------------------------------------------
(* C14: get_page on an unregistered path and on a missing path *)

IsPageCall == req.op = "get_page" /\ theme_call.state # "idle"

\* get_page answered None (the controller's 404)
PageAbsent == theme_call.state = "done" /\ ~theme_call.found

\* the payload under construction or returned is that of the node at path
PageOfNode(path) ==
  /\ theme_call.path = path
  /\ theme_call.state = "done" => theme_call.found

\* C14: get_page returns None for every path at which no node is registered;
\* for a null or empty path it returns the payload of the node at
\* root_content_path (None when no node is registered there either).
C14_GetPageAbsentOrRoot ==
  IsPageCall =>
    /\ (req.path \notin {None, << >>} /\ req.path \notin DOMAIN nodes) => PageAbsent
    /\ (req.path \notin {None, << >>} /\ req.path \in DOMAIN nodes) => PageOfNode(req.path)
    /\ (req.path \in {None, << >>} /\ root_content_path \in DOMAIN nodes)
         => PageOfNode(root_content_path)
    /\ (req.path \in {None, << >>} /\ root_content_path \notin DOMAIN nodes) => PageAbsent

\* the empty path answered with the root node's payload
C14_Witness ==
  /\ IsPageCall
  /\ req.path = << >>
  /\ theme_call.state = "done"
  /\ theme_call.found
  /\ theme_call.path = root_content_path
  /\ P_gpn \in DOMAIN nodes

----------------------------------------------------------------------------
(* C15, C16, C17: the items of get_nav *)

\* the path a config entry names: the root for "." and "./"
EntryPath(entry) ==
  IF entry.ref \in {DOT, DOT_SLASH} THEN root_content_path ELSE entry.ref

\* the entry has a ref and a node is registered at the path it names
EntryResolves(entry) ==
  entry.ref # None /\ EntryPath(entry) \in DOMAIN nodes

\* the entries of the config that resolve, in config order
RECURSIVE KeptEntries(_)
KeptEntries(config) ==
  IF config = << >> THEN << >>
  ELSE (IF EntryResolves(Head(config)) THEN << Head(config) >> ELSE << >>)
         \o KeptEntries(Tail(config))

\* "/" for the root, "/" followed by the path for any other node
ExpectedHref(path) ==
  IF path = root_content_path THEN << 47 >> ELSE << 47 >> \o path

\* C15: get_nav returns one item for each config entry whose ref resolves to
\* a registered node, in config order (the item carries the href of the
\* entry's node and the entry's label if it has one); entries without a ref
\* or with a ref that does not resolve leave no item.
C15_OneItemPerResolvedEntry ==
  NavDone =>
    LET kept == KeptEntries(nav.config)
    IN /\ Len(nav.items) = Len(kept)
       /\ \A i \in 1..Len(kept) :
            /\ nav.items[i].href = ExpectedHref(EntryPath(kept[i]))
            /\ Truthy(kept[i].label) => nav.items[i].label = kept[i].label

\* of three entries, one without a ref and one naming no node, only the third
\* leaves an item
C15_Witness ==
  /\ NavDone
  /\ Len(nav.config) = 3
  /\ nav.config[1].ref = None
  /\ nav.config[2].ref = N_Z
  /\ Len(nav.items) = 1
  /\ nav.items[1].href = << 47, 68 >>

\* the paths named by the subpage blocks with nav set and a registered ref,
\* depth first in declaration order, sections descended into
RECURSIVE NavChildPaths(_)
NavChildPaths(blocks) ==
  IF blocks = << >> THEN << >>
  ELSE LET b == Head(blocks)
       IN (CASE b.type = "subpage" ->
                  IF b.nav /\ b.ref \in DOMAIN nodes THEN << b.ref >> ELSE << >>
             [] b.type = "section" -> NavChildPaths(b.blocks)
             [] OTHER -> << >>)
            \o NavChildPaths(Tail(blocks))

\* item is an item of the node at path, and so are its descendants of theirs:
\* an item that was expanded has one child per nav subpage of its node
RECURSIVE ItemIsOf(_, _)
ItemIsOf(item, path) ==
  /\ item.href = ExpectedHref(path)
  /\ item.children # << >> =>
       LET below == NavChildPaths(nodes[path].content)
       IN /\ Len(item.children) = Len(below)
          /\ \A k \in 1..Len(below) : ItemIsOf(item.children[k], below[k])

\* C16: the item of an entry whose ref is "." or "./" is the item of the node
\* at root_content_path and has href "/"; every item, top-level or nested, of
\* a node other than the root has href "/" followed by the node's path.
C16_RootHrefAndPathHrefs ==
  NavDone =>
    LET kept == KeptEntries(nav.config)
    IN \A i \in 1..Len(nav.items) :
         /\ ItemIsOf(nav.items[i], EntryPath(kept[i]))
         /\ kept[i].ref \in {DOT, DOT_SLASH} =>
              /\ nav.items[i].href = << 47 >>
              /\ EntryPath(kept[i]) = root_content_path

\* "." gave the root's item with href "/", and beneath it the item of "A"
\* with href "/A"
C16_Witness ==
  /\ NavDone
  /\ nav.config[1].ref = DOT
  /\ Len(nav.items) >= 1
  /\ nav.items[1].href = << 47 >>
  /\ nav.items[1].children # << >>
  /\ nav.items[1].children[1].href = << 47, 65 >>

\* C17: the children of the item of an entry with auto_children =
\* from_subpages are the node's subpage blocks with nav = true whose ref
\* names a registered node, in depth-first declaration order; subpage blocks
\* with nav = false or a dangling ref and other block types give no child;
\* an entry without auto_children has an empty children list.
C17_ChildrenFromNavSubpages ==
  NavDone =>
    LET kept == KeptEntries(nav.config)
    IN \A i \in 1..Len(nav.items) :
         LET below == NavChildPaths(nodes[EntryPath(kept[i])].content)
             children == nav.items[i].children
         IN IF kept[i].auto_children = "from_subpages"
            THEN /\ Len(children) = Len(below)
                 /\ \A k \in 1..Len(below) : children[k].href = ExpectedHref(below[k])
            ELSE children = << >>

\* "A" declares a section holding a nav subpage "B" and a markdown block,
\* then nav subpages "D" and "Z" (unregistered) and a subpage "B" with
\* nav = false: its item has the children "/B" and "/D"
C17_Witness ==
  /\ NavDone
  /\ nav.config = << Entry(N_A, None, "from_subpages") >>
  /\ N_A \in DOMAIN nodes
  /\ Len(nodes[N_A].content) = 4
  /\ Len(nav.items) = 1
  /\ Len(nav.items[1].children) = 2
  /\ nav.items[1].children[1].href = << 47, 66 >>
  /\ nav.items[1].children[2].href = << 47, 68 >>

----------------------------------------------------------------------------
(* C18: the children index against the nodes' parent_path *)

\* C18: every path listed in children_by_parent[p] is a registered node whose
\* parent_path equals p, after any sequence of register_node calls and after
\* from_dict.
C18_ChildrenIndexMatchesParents ==
  \A p \in DOMAIN children_by_parent :
    \A k \in 1..Len(children_by_parent[p]) :
      LET child == children_by_parent[p][k]
      IN /\ child \in DOMAIN nodes
         /\ nodes[child].parent_path = p

----------------------------------------------------------------------------
(* C19: queries are read-only *)

----------------------------------------------------------------------------
(* C20: hydrate_collection_block against resolve_collection at page 1 *)

\* the block asks for pages of s > 0 items and does not shuffle
PagedBlock(b) ==
  /\ PagingEnabled(b)
  /\ b.paging.page_size # << >>
  /\ b.paging.page_size[1] > 0
  /\ b.sort # "random"

\* resolve_collection with page = 1, page_size = s and the block's source,
\* path, sort and limit
ResolveForBlock(b) ==
  LET r == Req(b.source, b.path, 1, b.paging.page_size[1], b.sort, b.limit)
  IN ResolveCollection(r, Candidates(r))

\* items and paging numbers of the two payloads are the same
SameItemsAndPaging(a, b) ==
  /\ a.items = b.items
  /\ a.page = b.page
  /\ a.page_size = b.page_size
  /\ a.total_items = b.total_items
  /\ a.total_pages = b.total_pages
  /\ a.has_more = b.has_more

\* C20: for a collection block with paging enabled and page_size s > 0,
\* hydrate_collection_block returns the same items and the same paging
\* numbers as resolve_collection called with page = 1, page_size = s and the
\* block's source, path, non-random sort and limit.
C20_HydrateMatchesResolve ==
  (req.op = "hydrate" /\ resp.type = "collection" /\ PagedBlock(req)) =>
    /\ resp.page = 1
    /\ SameItemsAndPaging(resp, ResolveForBlock(req))

----------------------------------------------------------------------------
(* C30: hydrate_collection_block with paging off or without a page size *)

IsHydrateAnswer == req.op = "hydrate" /\ resp.type = "collection"

\* the number of candidates of the block that the limit keeps
BlockKeptCount(b) ==
  IF PositiveLimit(b.limit)
  THEN Min2(b.limit[1], Len(BlockCandidates(b)))
  ELSE Len(BlockCandidates(b))

----------------------------------------------------------------------------
(* C21: the content blocks of a page payload *)

\* the blocks of a content list at every depth, sections before what they hold
RECURSIVE BlocksAtAnyDepth(_)
BlocksAtAnyDepth(blocks) ==
  IF blocks = << >> THEN << >>
  ELSE LET b == Head(blocks)
       IN << b >>
            \o (IF b.type = "section" THEN BlocksAtAnyDepth(b.blocks) ELSE << >>)
            \o BlocksAtAnyDepth(Tail(blocks))

\* the block carries resolved items and paging numbers
IsHydrated(block) ==
  /\ "items" \in DOMAIN block
  /\ "total_items" \in DOMAIN block.paging

\* C21: the payload of a registered node has every collection block of its
\* content, at the top level or inside sections at any depth, expanded with
\* its resolved items and paging metadata.
C21_CollectionBlocksHydrated ==
  (theme_call.state = "done" /\ theme_call.found) =>
    LET blocks == BlocksAtAnyDepth(theme_call.content)
    IN \A i \in 1..Len(blocks) :
         blocks[i].type = "collection" => IsHydrated(blocks[i])

----------------------------------------------------------------------------
(* C24: the media folder stays inside the content root *)

\* a media folder was listed and the answer is at hand
IsMediaListing == req.op = "list_media"

\* the directory a returned candidate lies in, followed from the content
\* root
CandidateDir(file) ==
  LET parts == PathParts(file)
  IN WalkFrom(ContentRoot, SubSeq(parts, 1, Len(parts) - 1))

\* C24: for every media_folder path and current node path, paths with ".."
\* included, the directory the resolver lists lies inside the content root,
\* and no returned candidate is a file outside the content root
C24_MediaFolderInsideContentRoot ==
  IsMediaListing =>
    /\ resp.dir # NoDir => Inside(resp.dir, ContentRoot)
    /\ \A i \in 1..Len(resp.files) :
         Inside(CandidateDir(resp.files[i]), ContentRoot)

\* a path with ".." made the resolver list a directory outside the content
\* root and return its file
C24_EscapedListing ==
  /\ IsMediaListing
  /\ resp.dir = << M_r, M_k >>
  /\ resp.files # << >>

----------------------------------------------------------------------------
(* C23: find-track matches the slug of the filename *)

\* find-track was asked with a track_id and a path, and answered
IsFindAnswer ==
  /\ req.op = "find_track"
  /\ resp.type = "http"
  /\ Truthy(req.track_id)
  /\ Truthy(req.path)

AlphaNumeric == (97..122) \cup (65..90) \cup (48..57)

\* the slug of a filename: the extension stripped, every run of characters
\* that are not letters or digits replaced by one dash, the dashes at both
\* ends trimmed
SlugOf(filename) ==
  LET stem   == PathStem(filename)
      dashed == [i \in 1..Len(stem) |->
                   IF stem[i] \in AlphaNumeric THEN stem[i] ELSE 45]
  IN Strip(CollapseDashes(dashed), 45)

\* the media items of the collection find-track searches
FindItems ==
  LET items == ResolveMediaCollection(FindRequest(req)).items
  IN SelectSeq(items, LAMBDA it : "type" \in DOMAIN it /\ it.type = "media_file")

\* the positions (0-based) of the media items whose slug is the track_id,
\* letter case aside
SlugMatches ==
  {i \in 0..(Len(FindItems) - 1) :
     Lower(SlugOf(FindItems[i + 1].filename)) = Lower(req.track_id)}

\* C23: find-track reports found = true, with the 0-based index and the
\* 1-based page of the item, whenever the track_id equals the slug of a
\* media item's filename compared case-insensitively, and reports found =
\* false only when no item matches
C23_FindTrackMatchesSlug ==
  IsFindAnswer =>
    /\ SlugMatches # {} =>
         /\ resp.status = 200
         /\ resp.body.found
         /\ resp.body.index \in SlugMatches
         /\ resp.body.page >= 1
    /\ (resp.status \in {200, 404} /\ ~resp.body.found) => SlugMatches = {}

\* the collection holds b.mp3 and the search for "B" reports found = false
C23_CaseSensitiveMiss ==
  /\ IsFindAnswer
  /\ req.track_id = K_B
  /\ SlugMatches # {}
  /\ resp.status = 200
  /\ ~resp.body.found

----------------------------------------------------------------------------
(* C29: the page find-track reports is the page of the collection endpoint *)

\* find-track reported found
IsFound == IsFindAnswer /\ resp.status = 200 /\ resp.body.found

\* the query to the collection endpoint with the source, path, pattern and
\* page_size of the find-track query, for a page
SamePageQuery(page) ==
  MediaReq(FindRequest(req).source, req.path, req.pattern, page,
           IntArg(req.page_size, 10))

\* the filenames on a page of the collection endpoint
FilenamesOnPage(page) ==
  LET items == ResolveMediaCollection(SamePageQuery(page)).items
  IN {items[i].filename : i \in 1..Len(items)}

\* C29: for every integer page_size, when find-track reports found with
\* index i and page p, the matched item is on page p of the collection
\* endpoint queried with the same source, path, pattern and page_size
C29_FoundPageIsCollectionPage ==
  IsFound => resp.body.filename \in FilenamesOnPage(resp.body.page)

\* a search with page_size -1 found the second item and reported page 0
C29_NegativePageSize ==
  /\ IsFound
  /\ IntArg(req.page_size, 10) = -1
  /\ resp.body.index = 1
  /\ resp.body.page = 0

----------------------------------------------------------------------------
(* C25: GET /content/<filepath> serves files of the content root only *)

\* a content URL was asked for and answered
IsContentAnswer == req.op = "content" /\ resp.type = "http"

\* the file the URL names, with every ".." followed
RequestedFile == ResolveFrom(<< >>, PathJoin(ContentRoot, UrlDecode(req.filepath)))

\* C25: every filepath that resolves outside the content root, through ".."
\* segments that are URL-encoded or not, is answered 403, and no file
\* outside the content root is served
C25_ContentStaysInsideRoot ==
  IsContentAnswer =>
    /\ ~Inside(RequestedFile, ContentRoot) => resp.status = 403
    /\ resp.status = 200 => Inside(resp.body.file, ContentRoot)

\* a file of a directory whose name starts with the name of the content
\* root was served
C25_SiblingServed ==
  /\ IsContentAnswer
  /\ resp.status = 200
  /\ resp.body.file = << M_r, M_content2, F_s >>

----------------------------------------------------------------------------
(* C22, C27: the layout of a payload is the caller's layout over the defaults *)

\* the key paths of a dict that end at a value that is not a dict
RECURSIVE LeafPaths(_)
LeafPaths(v) ==
  IF ~IsDict(v) THEN {<< >>}
  ELSE UNION {{<< k >> \o p : p \in LeafPaths(v[k])} : k \in DOMAIN v}

\* the dict has a value at the key path
RECURSIVE HasPath(_, _)
HasPath(v, p) ==
  \/ p = << >>
  \/ IsDict(v) /\ Head(p) \in DOMAIN v /\ HasPath(v[Head(p)], Tail(p))

\* the value at a key path of a dict
RECURSIVE ValueAt(_, _)
ValueAt(v, p) == IF p = << >> THEN v ELSE ValueAt(v[Head(p)], Tail(p))

\* the caller gave the key path: the layout has a value at it, or a value
\* that is not a dict at a key path above it
GivenBy(layout, p) ==
  \/ HasPath(layout, p)
  \/ \E n \in 1..(Len(p) - 1) :
       HasPath(layout, SubSeq(p, 1, n)) /\ ~IsDict(ValueAt(layout, SubSeq(p, 1, n)))

\* the built-in defaults of the mode a layout dict asks for: the grid
\* defaults for a missing or unknown mode
DefaultsFor(layout) ==
  IF /\ "mode" \in DOMAIN layout
     /\ "str" \in DOMAIN layout.mode
     /\ layout.mode.str \in {"grid", "list", "carousel"}
  THEN DEFAULT_COLLECTION_LAYOUTS[layout.mode.str]
  ELSE DEFAULT_COLLECTION_LAYOUTS["grid"]

\* merged has the caller's value at every key path of the caller
CallerWins(merged, layout) ==
  \A p \in LeafPaths(layout) :
    HasPath(merged, p) /\ ValueAt(merged, p) = ValueAt(layout, p)

\* merged has the default at every default key path the caller did not give
DefaultsKept(merged, layout) ==
  \A p \in LeafPaths(DefaultsFor(layout)) :
    ~GivenBy(layout, p) =>
      HasPath(merged, p) /\ ValueAt(merged, p) = ValueAt(DefaultsFor(layout), p)

\* C22: the layout returned by resolve_collection is the caller's layout
\* deep-merged over the built-in defaults of the requested mode: the
\* caller's value at every key path of the caller's layout, at every nesting
\* level, the default at every default key path the caller did not give,
\* and the grid defaults for an unknown or missing mode
C22_LayoutIsDeepMerge ==
  IsCollectionAnswer =>
    /\ CallerWins(resp.layout, LayoutDict(req.layout))
    /\ DefaultsKept(resp.layout, LayoutDict(req.layout))

\* the caller gave one key of a nested dict: the answer has the caller's
\* value there and the defaults at the keys beside it
C22_Witness ==
  /\ IsCollectionAnswer
  /\ req.layout = [columns |-> [xl |-> IntV(6)]]
  /\ resp.layout.columns.xl = IntV(6)
  /\ resp.layout.columns.lg = IntV(4)
  /\ resp.layout.mode = StrV("grid")

\* C27: in hydrate_collection_block the block's layout is deep-merged over
\* the built-in defaults of its mode: every layout field the authored block
\* leaves unset keeps the built-in default of that mode, and only fields
\* the author set override a default
C27_UnsetFieldsKeepDefaults ==
  (IsHydrateAnswer /\ req.layout # NoLayout) =>
    /\ CallerWins(resp.layout, req.layout)
    /\ DefaultsKept(resp.layout, req.layout)

\* a block authored with a mode only came back with a default replaced by
\* None
C27_DefaultLost ==
  /\ IsHydrateAnswer
  /\ req.layout = [mode |-> StrV("carousel")]
  /\ resp.layout.loop = NoneV

----------------------------------------------------------------------------
(* C26: theme resolution terminates *)

\* _resolve_theme is in its loop
ThemeWalking == theme_call.state = "walking"

\* C26: effective-theme resolution terminates and returns a value, a theme
\* or the root theme of the graph, for every path and every graph, graphs
\* with orphaned parent_path fields, with a node that is its own parent and
\* with a cycle among theme-less nodes included
C26_ThemeResolutionTerminates == ThemeWalking ~> ThemeAnswered

\* the loop is at a theme-less node whose parent_path is the node itself
C26_SelfParent ==
  /\ ThemeWalking
  /\ HasNode(theme_call.current_path)
  /\ ~ThemeFound(theme_call.current_path)
  /\ GetNode(theme_call.current_path).parent_path = theme_call.current_path

----------------------------------------------------------------------------
(* C28: one expansion per node and entry, a fresh visited set per entry *)

\* the items of a tree in depth-first declaration order
RECURSIVE Preorder(_)
Preorder(item) ==
  LET below[k \in 0..Len(item.children)] ==
        IF k = 0 THEN << >> ELSE below[k - 1] \o Preorder(item.children[k])
  IN << item >> \o below[Len(item.children)]

\* the node an href stands for
PathOfHref(href) == IF href = << 47 >> THEN root_content_path ELSE Tail(href)

\* the nav subpages of a node whose ref names a registered node
NavChildBlocks(path) ==
  SelectSeq(IterNavSubpages(GetNode(path).content),
            LAMBDA b : Truthy(b.ref) /\ HasNode(b.ref))

\* in the tree of a top-level item, the first occurrence of a node in
\* depth-first declaration order carries one child per nav subpage of the
\* node, and every later occurrence has no children
OnlyFirstOccurrenceExpanded(item) ==
  LET occ == Preorder(item)
  IN \A j \in 1..Len(occ) :
       Len(occ[j].children) =
         IF \E i \in 1..(j - 1) : occ[i].href = occ[j].href
         THEN 0
         ELSE Len(NavChildBlocks(PathOfHref(occ[j].href)))

\* the children of a node expanded with the visited set as the calls before
\* left it, and the visited set afterwards
RECURSIVE ExpandNode(_, _)
RECURSIVE ExpandBlocks(_, _)
ExpandNode(path, visited) ==
  IF path \in visited THEN [children |-> << >>, visited |-> visited]
  ELSE ExpandBlocks(NavChildBlocks(path), visited \cup {path})

ExpandBlocks(blocks, visited) ==
  IF blocks = << >> THEN [children |-> << >>, visited |-> visited]
  ELSE LET target == GetNode(Head(blocks).ref)
           sub    == ExpandNode(target.path, visited)
           rest   == ExpandBlocks(Tail(blocks), sub.visited)
       IN [ children |-> << [ label    |-> EffectiveLabel(Head(blocks).label, target),
                              href     |-> ExpectedHref(target.path),
                              children |-> sub.children ] >> \o rest.children,
            visited  |-> rest.visited ]

\* the children an entry gets when it is the only entry of the config
ChildrenAlone(entry) == ExpandNode(EntryPath(entry), {}).children

\* C28: within one top-level auto-children expansion each node is expanded at
\* most once: of a node referenced from two branches only the first
\* occurrence in depth-first declaration order carries the node's children,
\* every later occurrence has an empty children list; the visited set is
\* fresh for each top-level entry, so an entry's children are what they are
\* without the entries before it
C28_OneExpansionFreshPerEntry ==
  NavDone =>
    LET kept == KeptEntries(nav.config)
    IN \A i \in 1..Len(kept) :
         kept[i].auto_children = "from_subpages" =>
           /\ OnlyFirstOccurrenceExpanded(nav.items[i])
           /\ nav.items[i].children = ChildrenAlone(kept[i])

\* A references B and D, B references D, D references A; the config expands
\* A and then B: under A, D carries its children below B and is empty
\* beside B, and B is expanded again for its own entry
C28_Witness ==
  /\ NavDone
  /\ Len(nav.items) = 2
  /\ nav.config[1].auto_children = "from_subpages"
  /\ nav.config[2].auto_children = "from_subpages"
  /\ nav.items[1].href = << 47 >> \o N_A
  /\ Len(nav.items[1].children) = 2
  /\ nav.items[1].children[1].href = << 47 >> \o N_B
  /\ nav.items[1].children[1].children # << >>
  /\ nav.items[1].children[1].children[1].href = << 47 >> \o N_D
  /\ nav.items[1].children[1].children[1].children # << >>
  /\ nav.items[1].children[2].href = << 47 >> \o N_D
  /\ nav.items[1].children[2].children = << >>
  /\ nav.items[2].href = << 47 >> \o N_B
  /\ nav.items[2].children # << >>

====
